---- MODULE Spec2Model ----
(***************************************************************************)
(* A model of the dashboard analysis pipeline (charts_model): the Layout   *)
(* Composer (utils/layout.py), the KPI Synthesizer                         *)
(* (services/kpi_builder.py), the Cleaner (services/cleaner.py), the       *)
(* Filter Synthesizer (services/filter_builder.py) and the trend analysis  *)
(* of the Insight Engine (services/recommender.py).                        *)
(*                                                                         *)
(* Every component is a synchronous function of its inputs, so each has a  *)
(* specification of its own: Init draws the inputs from bounded sets and   *)
(* one action per public operation applies it.  The variables of the other *)
(* components stay at Idle.                                                *)
(***************************************************************************)
EXTENDS Integers, Sequences, FiniteSets, TLC

VARIABLES
    pc,               \* the position of the call sequence being modelled
    charts,           \* organize_layout's argument charts
    kpis,             \* organize_layout's argument kpis
    recommendations,  \* organize_layout's argument recommendations
    layout,           \* the layout organize_layout returned
    df,               \* the dataset (DataFrame) handed to a stage
    kpi_out,          \* the list build_kpis returned
    insights,         \* the list _generate_trend_insights returned
    filters,          \* the mapping build_filters returned
    payload,          \* the filter payload handed to apply_filters
    filtered,         \* the dataset apply_filters returned
    route_filtered,   \* the dataset the request layer's apply_filters returned
    cleaner,          \* the column lists of the DataCleaner that ran last
    cleaned,          \* the dataset clean_data returned
    recleaned,        \* the dataset clean_data returned for the cleaned one
    passed,           \* the layout as it was handed to optimize_layout
    optimized,        \* the layout optimize_layout returned
    custom,           \* the layout create_custom_layout returned
    custom_again      \* the layout it returned for the same arguments once more

vars == <<pc, charts, kpis, recommendations, layout, df, kpi_out, insights,
          filters, payload, filtered, route_filtered, cleaner, cleaned, recleaned,
          passed, optimized, custom, custom_again>>

composeVars == <<passed, optimized, custom, custom_again>>
layoutVars == <<charts, kpis, recommendations, layout, composeVars>>
kpiVars == <<kpi_out>>
trendVars == <<insights>>
filterVars == <<filters, payload, filtered, route_filtered>>
cleanVars == <<cleaner, cleaned, recleaned>>

\* The value of a variable that the specification at hand does not use.
Idle == <<>>

\* A dict key that is absent (dict.get then returns its default).
NoKey == "<absent>"

Max(a, b) == IF a >= b THEN a ELSE b

Abs(a) == IF a >= 0 THEN a ELSE -a

\* All sequences over S of length at most n.
SeqsUpTo(S, n) == UNION {[1..k -> S] : k \in 0..n}

RECURSIVE SumSeq(_)
SumSeq(s) == IF s = <<>> THEN 0 ELSE Head(s) + SumSeq(Tail(s))

\* The concatenation of a sequence of sequences.
RECURSIVE ConcatAll(_)
ConcatAll(ss) == IF ss = <<>> THEN <<>> ELSE Head(ss) \o ConcatAll(Tail(ss))

\* A sequence of integers in ascending order.
RECURSIVE SortInts(_)
SortInts(s) ==
    IF s = <<>> THEN <<>>
    ELSE LET x == Head(s)
             rest == SortInts(Tail(s))
             k == Cardinality({i \in 1..Len(rest) : rest[i] < x})
         IN  SubSeq(rest, 1, k) \o <<x>> \o SubSeq(rest, k + 1, Len(rest))

\* The distinct integers of a set, ascending.
RECURSIVE SortedSet(_)
SortedSet(S) ==
    IF S = {} THEN <<>>
    ELSE LET m == CHOOSE x \in S : \A y \in S : x <= y
         IN  <<m>> \o SortedSet(S \ {m})

(***************************************************************************)
(* Datasets.  A DataFrame is its columns (name and dtype, in order) and    *)
(* its rows; rows[r][c] is the cell of row r in column c.  A cell is a      *)
(* number, a string, a timestamp (counted in half days, so that two        *)
(* timestamps may share a calendar date) or missing (None, NaN, NaT).      *)
(***************************************************************************)

NumCell(n) == [t |-> "num", n |-> n, s |-> ""]
StrCell(s) == [t |-> "str", n |-> 0, s |-> s]
TimeCell(ts) == [t |-> "ts", n |-> ts, s |-> ""]
NaN == [t |-> "nan", n |-> 0, s |-> ""]

\* Series.dropna()
dropna(cells) == SelectSeq(cells, LAMBDA cell : cell # NaN)

\* The numbers of a sequence of number (or timestamp) cells.
Values(cells) == [i \in 1..Len(cells) |-> cells[i].n]

RangeOf(s) == {s[i] : i \in 1..Len(s)}

Names(frame) == [c \in 1..Len(frame.columns) |-> frame.columns[c].name]

\* df.select_dtypes(include=[dtype]).columns.tolist()
select_dtypes(frame, dtype) ==
    LET OfType(col) == col.dtype = dtype
        cols == SelectSeq(frame.columns, OfType)
    IN  [c \in 1..Len(cols) |-> cols[c].name]

ColIndex(frame, name) == CHOOSE c \in 1..Len(frame.columns) : frame.columns[c].name = name

\* df[name]: the cells of a column, in row order.
Column(frame, name) == [r \in 1..Len(frame.rows) |-> frame.rows[r][ColIndex(frame, name)]]

\* Timestamp.date(): the calendar day of a timestamp.
DateOf(ts) == ts \div 2

(***************************************************************************)
(* Layout Composer: utils/layout.py                                        *)
(***************************************************************************)

\* Bounds of the layout inputs.
MaxCharts == 3
MaxKpis == 5
MaxRecs == 3

\* Chart kinds of the inputs; NoKey is a chart dict without "type".
ChartTypes == {"bar", "line", NoKey}

\* Severities of the inputs; NoKey is an insight dict without "severity".
Severities == {"high", "medium", "low", NoKey}

\* Python objects are told apart by identity: uid is the object's identity
\* (its index in the argument list), so equal dicts remain distinguishable.
ChartInputs ==
    {cs \in SeqsUpTo([uid : 1..MaxCharts, type : ChartTypes], MaxCharts) :
        \A i \in 1..Len(cs) : cs[i].uid = i}

KpiInputs ==
    {[i \in 1..n |-> [uid |-> i, id |-> "kpi_" \o ToString(i)]] : n \in 0..MaxKpis}

RecInputs ==
    {rs \in SeqsUpTo([uid : 1..MaxRecs, severity : Severities], MaxRecs) :
        \A i \in 1..Len(rs) : rs[i].uid = i}

layout_configs ==
    [kpi |-> [width |-> 3, height |-> 1],
     chart |-> [width |-> 6, height |-> 2],
     recommendation |-> [width |-> 12, height |-> 1]]

section_priorities == [kpis |-> 1, charts |-> 2, recommendations |-> 3]

\* max(1, n // per + (1 if n % per > 0 else 0))
GridRows(n, per) == Max(1, (n \div per) + (IF n % per > 0 THEN 1 ELSE 0))

\* Mutant: only the first grid row of KPI cards is emitted.
create_kpi_section_first_row(ks) ==
    [id |-> "kpi_section",
     title |-> "Key Performance Indicators",
     type |-> "kpi_grid",
     priority |-> 1,
     layout |-> [columns |-> 4, rows |-> 1],
     components |->
        [j \in 1..(IF Len(ks) < 4 THEN Len(ks) ELSE 4) |->
            [id |-> ks[j].id,
             type |-> "kpi_card",
             data |-> ks[j],
             position |-> [row |-> 0, col |-> j - 1, width |-> 3, height |-> 1]]]]

create_kpi_section(ks) ==
    [id |-> "kpi_section",
     title |-> "Key Performance Indicators",
     type |-> "kpi_grid",
     priority |-> section_priorities.kpis,
     layout |-> [columns |-> 4, rows |-> GridRows(Len(ks), 4)],
     components |->
        [j \in 1..Len(ks) |->
            [id |-> ks[j].id,
             type |-> "kpi_card",
             data |-> ks[j],
             position |-> [row |-> (j - 1) \div 4,
                           col |-> (j - 1) % 4,
                           width |-> layout_configs.kpi.width,
                           height |-> layout_configs.kpi.height]]]]

\* chart.get("type", "unknown")
ChartType(c) == IF c.type = NoKey THEN "unknown" ELSE c.type

\* Mutant: grouped[chart_type] = [chart] also for a kind already seen.
RECURSIVE group_charts_overwrite(_)
group_charts_overwrite(cs) ==
    IF cs = <<>> THEN <<>>
    ELSE LET grouped == group_charts_overwrite(SubSeq(cs, 1, Len(cs) - 1))
             chart == cs[Len(cs)]
             chart_type == ChartType(chart)
         IN  IF \E g \in 1..Len(grouped) : grouped[g].type = chart_type
             THEN [g \in 1..Len(grouped) |->
                     IF grouped[g].type = chart_type
                     THEN [grouped[g] EXCEPT !.charts = <<chart>>]
                     ELSE grouped[g]]
             ELSE Append(grouped, [type |-> chart_type, charts |-> <<chart>>])

\* The dict of lists, as the sequence of its (key, list) items in insertion order.
RECURSIVE group_charts_by_type(_)
group_charts_by_type(cs) ==
    IF cs = <<>> THEN <<>>
    ELSE LET grouped == group_charts_by_type(SubSeq(cs, 1, Len(cs) - 1))
             chart == cs[Len(cs)]
             chart_type == ChartType(chart)
         IN  IF \E g \in 1..Len(grouped) : grouped[g].type = chart_type
             THEN [g \in 1..Len(grouped) |->
                     IF grouped[g].type = chart_type
                     THEN [grouped[g] EXCEPT !.charts = Append(@, chart)]
                     ELSE grouped[g]]
             ELSE Append(grouped, [type |-> chart_type, charts |-> <<chart>>])

\* chart_type.replace('_', ' ').title() + " Charts"
ChartSectionTitle(chart_type) ==
    CASE chart_type = "bar" -> "Bar Charts"
      [] chart_type = "line" -> "Line Charts"
      [] OTHER -> "Unknown Charts"

\* Chart sections whose charts are stacked in the first column of the grid.
create_chart_sections_stacked(cs) ==
    LET grouped_charts == group_charts_by_type(cs)
    IN  [g \in 1..Len(grouped_charts) |->
            LET chart_type == grouped_charts[g].type
                type_charts == grouped_charts[g].charts
            IN  [id |-> "chart_section_" \o chart_type,
                 title |-> ChartSectionTitle(chart_type),
                 type |-> "chart_grid",
                 priority |-> section_priorities.charts,
                 layout |-> [columns |-> 2, rows |-> GridRows(Len(type_charts), 2)],
                 components |->
                    [j \in 1..Len(type_charts) |->
                        [id |-> "chart_" \o ToString(j - 1),
                         type |-> "chart",
                         data |-> type_charts[j],
                         position |-> [row |-> j - 1,
                                       col |-> 0,
                                       width |-> layout_configs.chart.width,
                                       height |-> layout_configs.chart.height]]]]]

create_chart_sections(cs) ==
    LET grouped_charts == group_charts_by_type(cs)
    IN  [g \in 1..Len(grouped_charts) |->
            LET chart_type == grouped_charts[g].type
                type_charts == grouped_charts[g].charts
            IN  [id |-> "chart_section_" \o chart_type,
                 title |-> ChartSectionTitle(chart_type),
                 type |-> "chart_grid",
                 priority |-> section_priorities.charts,
                 layout |-> [columns |-> 2, rows |-> GridRows(Len(type_charts), 2)],
                 components |->
                    [j \in 1..Len(type_charts) |->
                        [id |-> "chart_" \o ToString(j - 1),
                         type |-> "chart",
                         data |-> type_charts[j],
                         position |-> [row |-> (j - 1) \div 2,
                                       col |-> (j - 1) % 2,
                                       width |-> layout_configs.chart.width,
                                       height |-> layout_configs.chart.height]]]]]

get_severity_score(severity) ==
    CASE severity = "high" -> 3
      [] severity = "medium" -> 2
      [] severity = "low" -> 1
      [] OTHER -> 1

\* The sort key: self._get_severity_score(x.get("severity", "low"))
SeverityKey(x) ==
    get_severity_score(IF x.severity = NoKey THEN "low" ELSE x.severity)

\* Mutant: sorted(recommendations, key=...)[::-1], which reverses the ties.
RECURSIVE sorted_then_reversed(_)
sorted_then_reversed(rs) ==
    IF rs = <<>> THEN <<>>
    ELSE LET x == Head(rs)
             rest == sorted_then_reversed(Tail(rs))
             k == Cardinality({i \in 1..Len(rest) : SeverityKey(rest[i]) >= SeverityKey(x)})
         IN  SubSeq(rest, 1, k) \o <<x>> \o SubSeq(rest, k + 1, Len(rest))

\* sorted(recommendations, key=SeverityKey, reverse=True): Python's sort is
\* stable, also with reverse=True, so x goes behind the elements of a
\* strictly greater key and before every later element of an equal key.
RECURSIVE sorted_by_severity(_)
sorted_by_severity(rs) ==
    IF rs = <<>> THEN <<>>
    ELSE LET x == Head(rs)
             rest == sorted_by_severity(Tail(rs))
             k == Cardinality({i \in 1..Len(rest) : SeverityKey(rest[i]) > SeverityKey(x)})
         IN  SubSeq(rest, 1, k) \o <<x>> \o SubSeq(rest, k + 1, Len(rest))

create_recommendation_section(rs) ==
    LET sorted_recommendations == sorted_by_severity(rs)
    IN  [id |-> "recommendation_section",
         title |-> "Business Insights & Recommendations",
         type |-> "recommendation_list",
         priority |-> section_priorities.recommendations,
         layout |-> [columns |-> 1, rows |-> Len(rs)],
         components |->
            [j \in 1..Len(sorted_recommendations) |->
                [id |-> "recommendation_" \o ToString(j - 1),
                 type |-> "recommendation_card",
                 data |-> sorted_recommendations[j],
                 position |-> [row |-> j - 1,
                               col |-> 0,
                               width |-> layout_configs.recommendation.width,
                               height |-> layout_configs.recommendation.height]]]]

\* A composition that makes the section of the KPIs and that of the
\* recommendations whether or not there are any.
organize_layout_unguarded(cs, ks, rs) ==
    [sections |->
        <<create_kpi_section(ks)>>
        \o (IF cs # <<>> THEN create_chart_sections(cs) ELSE <<>>)
        \o <<create_recommendation_section(rs)>>,
     total_components |-> Len(cs) + Len(ks) + Len(rs),
     layout_type |-> "responsive_grid"]

organize_layout(cs, ks, rs) ==
    [sections |->
        (IF ks # <<>> THEN <<create_kpi_section(ks)>> ELSE <<>>)
        \o (IF cs # <<>> THEN create_chart_sections(cs) ELSE <<>>)
        \o (IF rs # <<>> THEN <<create_recommendation_section(rs)>> ELSE <<>>),
     total_components |-> Len(cs) + Len(ks) + Len(rs),
     layout_type |-> "responsive_grid"]

InitLayout ==
    /\ pc = "layout_input"
    /\ charts \in ChartInputs
    /\ kpis \in KpiInputs
    /\ recommendations \in RecInputs
    /\ layout = Idle
    /\ passed = Idle /\ optimized = Idle /\ custom = Idle /\ custom_again = Idle
    /\ df = Idle
    /\ kpi_out = Idle
    /\ insights = Idle
    /\ filters = Idle /\ payload = Idle /\ filtered = Idle /\ route_filtered = Idle
    /\ cleaner = Idle /\ cleaned = Idle /\ recleaned = Idle

\* layout = layout_manager.organize_layout(charts, kpis, recommendations)
OrganizeLayout ==
    /\ pc = "layout_input"
    /\ layout' = organize_layout(charts, kpis, recommendations)
    /\ pc' = "organized"
    /\ UNCHANGED <<charts, kpis, recommendations, composeVars, df, kpiVars, trendVars,
                 filterVars, cleanVars>>

NextLayout == OrganizeLayout

SpecLayout == InitLayout /\ [][NextLayout]_vars

(***************************************************************************)
(* Layout Composer: properties                                             *)
(***************************************************************************)

\* The (section, component) index pairs of a layout.
ComponentSlots(l) ==
    UNION {{<<s, j>> : j \in 1..Len(l.sections[s].components)} : s \in 1..Len(l.sections)}

\* The number of components summed over the sections.
EmittedComponents(l) ==
    SumSeq([s \in 1..Len(l.sections) |-> Len(l.sections[s].components)])

\* The number of components of the given type whose data is the input x.
Bearers(l, type, x) ==
    Cardinality({p \in ComponentSlots(l) :
        /\ l.sections[p[1]].components[p[2]].type = type
        /\ l.sections[p[1]].components[p[2]].data = x})

\* C1: the layout's total_components is len(charts) + len(kpis) +
\* len(insights), and the components summed over all emitted sections are
\* that many.
C1_LayoutTotal ==
    pc = "organized" =>
        /\ layout.total_components = Len(charts) + Len(kpis) + Len(recommendations)
        /\ EmittedComponents(layout) = Len(charts) + Len(kpis) + Len(recommendations)

\* C1 witness: a layout of a KPI section, two chart sections (one of them
\* holding two charts) and an insight section.
C1_Witness ==
    /\ pc = "organized"
    /\ Len(charts) = 3 /\ Len(kpis) > 0 /\ Len(recommendations) > 0
    /\ Len(layout.sections) = 4

\* C2: every input KPI, chart and insight is the data of exactly one
\* component across all sections, whatever the chart kinds and severities.
C2_EachInputOnce ==
    pc = "organized" =>
        /\ \A i \in 1..Len(kpis) : Bearers(layout, "kpi_card", kpis[i]) = 1
        /\ \A i \in 1..Len(charts) : Bearers(layout, "chart", charts[i]) = 1
        /\ \A i \in 1..Len(recommendations) :
              Bearers(layout, "recommendation_card", recommendations[i]) = 1

\* C2 witness: more KPIs than one grid row holds, charts of a kind seen
\* twice with another kind between them, and insights that the sort reorders.
C2_Witness ==
    /\ pc = "organized"
    /\ Len(kpis) = 5
    /\ Len(charts) = 3 /\ charts[1].type = charts[3].type /\ charts[1].type # charts[2].type
    /\ Len(recommendations) >= 2
    /\ sorted_by_severity(recommendations) # recommendations

\* The insight section of a layout (there is at most one).
InsightComponents(l) ==
    LET at == {s \in 1..Len(l.sections) : l.sections[s].id = "recommendation_section"}
    IN  IF at = {} THEN <<>> ELSE l.sections[CHOOSE s \in at : TRUE].components

\* C10: the insight section lists its components in non-increasing severity
\* score (high 3, medium 2, low 1), insights of equal score keep the order
\* they had in the input list, and component i sits at row i, col 0.
C10_InsightOrder ==
    pc = "organized" =>
        LET comps == InsightComponents(layout)
        IN  /\ Len(comps) = Len(recommendations)
            /\ \A i \in 1..Len(comps) :
                  /\ comps[i].position.row = i - 1
                  /\ comps[i].position.col = 0
            /\ \A i, j \in 1..Len(comps) :
                  i < j =>
                     /\ SeverityKey(comps[i].data) >= SeverityKey(comps[j].data)
                     /\ SeverityKey(comps[i].data) = SeverityKey(comps[j].data)
                           => comps[i].data.uid < comps[j].data.uid

\* C10 witness: a high insight behind two insights of equal lower score, so
\* the sort moves it to the front and has a tie to keep in order.
C10_Witness ==
    /\ pc = "organized"
    /\ Len(recommendations) = 3
    /\ SeverityKey(recommendations[1]) = SeverityKey(recommendations[2])
    /\ SeverityKey(recommendations[3]) = 3
    /\ SeverityKey(recommendations[1]) < 3
    /\ InsightComponents(layout)[1].data = recommendations[3]

(***************************************************************************)
(* KPI Synthesizer: services/kpi_builder.py                                *)
(***************************************************************************)

\* Bound of the datasets handed to build_kpis.
MaxKpiRows == 2

\* The columns a dataset of the KPI specification is drawn from, in order.
KpiColumnPool ==
    <<[name |-> "c", dtype |-> "object"],
      [name |-> "d", dtype |-> "datetime64"],
      [name |-> "e", dtype |-> "datetime64"],
      [name |-> "a", dtype |-> "number"],
      [name |-> "a_by_c", dtype |-> "number"]>>

\* The cells a column is drawn from, by its dtype.
KpiCells(col) ==
    CASE col.dtype = "number" -> {NumCell(n) : n \in {-1, 0, 1}}
      [] col.dtype = "object" -> {StrCell("X"), StrCell("Y")}
      [] col.dtype = "datetime64" -> {TimeCell(ts) : ts \in {2, 3, 4}}

\* The order of the object values (groupby sorts its keys).
StrRank(v) == CASE v = "X" -> 1 [] v = "Y" -> 2 [] OTHER -> 3

\* The datasets of the KPI specification: at most three columns of the pool.
KpiSchemas ==
    {SelectSeq(KpiColumnPool, LAMBDA col : col.name \in chosen) :
        chosen \in {S \in SUBSET {"a", "c", "d", "e", "a_by_c"} : Cardinality(S) <= 3}}

RowsOf(columns, Cells(_)) ==
    {row \in [1..Len(columns) -> UNION {Cells(columns[c]) : c \in 1..Len(columns)}] :
        \A c \in 1..Len(columns) : row[c] \in Cells(columns[c])}

\* frame is a dataset of one of the schemas, of at most MaxRows rows.
IsDatasetOf(frame, Schemas, Cells(_), MaxRows) ==
    \E columns \in Schemas :
        \E k \in 0..MaxRows :
            \E rows \in [1..k -> RowsOf(columns, Cells)] :
                frame = [columns |-> columns, rows |-> rows]


\* A number as the fraction n/d; d = 0 is the float nan or inf.
Num(n, d) == [n |-> n, d |-> d, s |-> ""]

\* A text value.
Text(s) == [n |-> 0, d |-> 1, s |-> s]

\* A KPI dict.  kind and of are not keys of the dict: they record which
\* builder made the KPI and for which columns.  value is the number before
\* its rendering as text (f"{x:.1f}%", f"{x:.2f}").
Kpi(id, value, format, trend, kind, of) ==
    [id |-> id, value |-> value, format |-> format, trend |-> trend,
     kind |-> kind, of |-> of]

\* df[column].sum(): missing cells are skipped.
ColSum(frame, column) == SumSeq(Values(dropna(Column(frame, column))))

build_sum_kpi(frame, column) ==
    <<Kpi("sum_" \o column, Num(ColSum(frame, column), 1), "number", "None",
          "sum", <<column>>)>>

build_average_kpi(frame, column) ==
    <<Kpi("avg_" \o column, Num(ColSum(frame, column), Len(dropna(Column(frame, column)))),
          "number", "None",
          "average", <<column>>)>>

build_count_kpi(frame, column) ==
    <<Kpi("count_" \o column, Num(Len(frame.rows), 1), "number", "None",
          "count", <<column>>)>>

\* df[column].value_counts().index[0]: the most frequent value, the first
\* encountered among those of the greatest count.
TopValue(column) ==
    LET cells == dropna(column)
        Count(v) == Cardinality({r \in 1..Len(cells) : cells[r] = v})
        first == CHOOSE r \in 1..Len(cells) :
                    /\ \A q \in 1..Len(cells) : Count(cells[q]) <= Count(cells[r])
                    /\ \A q \in 1..(r - 1) : Count(cells[q]) < Count(cells[r])
    IN  cells[first].s

build_top_category_kpi(frame, column) ==
    IF Len(dropna(Column(frame, column))) > 0
    THEN <<Kpi("top_" \o column, Text(TopValue(Column(frame, column))), "text", "None",
               "top", <<column>>)>>
    ELSE <<>>

\* df.groupby(cat_column)[num_column].sum().idxmax(): the first key, in
\* sorted key order, of the greatest sum.
TopCategoryBySum(frame, cat_column, num_column) ==
    LET cats == Column(frame, cat_column)
        nums == Column(frame, num_column)
        keys == RangeOf(cats) \ {NaN}
        GroupSum(v) == SumSeq([r \in 1..Len(cats) |->
                            IF cats[r] = v /\ nums[r] # NaN THEN nums[r].n ELSE 0])
        top == CHOOSE v \in keys :
                  /\ \A w \in keys : GroupSum(w) <= GroupSum(v)
                  /\ \A w \in keys : GroupSum(w) = GroupSum(v) => StrRank(v.s) <= StrRank(w.s)
    IN  top.s

build_category_sum_kpi(frame, cat_column, num_column) ==
    IF Len(dropna(Column(frame, cat_column))) > 0
    THEN <<Kpi("sum_" \o num_column \o "_by_" \o cat_column,
               Text(TopCategoryBySum(frame, cat_column, num_column)), "text", "None",
               "category_sum", <<cat_column, num_column>>)>>
    ELSE <<>>

\* df.groupby(df[date_column].dt.date)[value_column].sum(): one total per
\* calendar date, in ascending date order; rows without a date are left out.
daily_totals(frame, date_column, value_column) ==
    LET stamps == Column(frame, date_column)
        values == Column(frame, value_column)
        dated == {r \in 1..Len(stamps) : stamps[r] # NaN}
        dates == SortedSet({DateOf(stamps[r].n) : r \in dated})
    IN  [k \in 1..Len(dates) |->
            SumSeq([r \in 1..Len(stamps) |->
                        IF r \in dated /\ DateOf(stamps[r].n) = dates[k] /\ values[r] # NaN
                        THEN values[r].n ELSE 0])]

\* Mutant: the growth rate is computed without the test of first_value.
build_growth_kpi_unguarded(frame, date_column, value_column) ==
    LET totals == daily_totals(frame, date_column, value_column)
    IN  IF Len(totals) >= 2
        THEN LET first_value == totals[1]
                 last_value == totals[Len(totals)]
             IN  <<Kpi("growth_" \o value_column,
                       Num((last_value - first_value) * 100, first_value), "percentage",
                       "down", "growth", <<date_column, value_column>>)>>
        ELSE <<>>

build_growth_kpi(frame, date_column, value_column) ==
    LET totals == daily_totals(frame, date_column, value_column)
    IN  IF Len(totals) >= 2
        THEN LET first_value == totals[1]
                 last_value == totals[Len(totals)]
             IN  IF first_value # 0
                 THEN <<Kpi("growth_" \o value_column,
                            Num((last_value - first_value) * 100, first_value), "percentage",
                            IF (last_value - first_value) * first_value > 0 THEN "up" ELSE "down",
                            "growth", <<date_column, value_column>>)>>
                 ELSE <<>>
        ELSE <<>>

\* Twice df[date_column].median(): the middle timestamp, or the mean of the
\* two middle ones; of no timestamps it is NaT, which compares False.
TwiceMedian(cells) ==
    LET sorted == SortInts(Values(dropna(cells)))
        n == Len(sorted)
    IN  IF n % 2 = 1 THEN 2 * sorted[(n + 1) \div 2]
        ELSE sorted[n \div 2] + sorted[(n \div 2) + 1]

\* The sum of value_column over the rows before mid_date (period 1) and
\* from mid_date on (period 2).
PeriodSum(frame, date_column, value_column, period) ==
    LET stamps == Column(frame, date_column)
        values == Column(frame, value_column)
    IN  IF dropna(stamps) = <<>> THEN 0
        ELSE SumSeq([r \in 1..Len(stamps) |->
                IF /\ stamps[r] # NaN
                   /\ values[r] # NaN
                   /\ (period = 1) = (2 * stamps[r].n < TwiceMedian(stamps))
                THEN values[r].n ELSE 0])

build_period_comparison_kpi(frame, date_column, value_column) ==
    LET period1 == PeriodSum(frame, date_column, value_column, 1)
        period2 == PeriodSum(frame, date_column, value_column, 2)
    IN  IF period1 # 0
        THEN <<Kpi("period_comparison_" \o value_column,
                   Num((period2 - period1) * 100, period1), "percentage",
                   IF (period2 - period1) * period1 > 0 THEN "up" ELSE "down",
                   "period_comparison", <<date_column, value_column>>)>>
        ELSE <<>>

build_ratio_kpi(frame, column1, column2) ==
    LET sum1 == ColSum(frame, column1)
        sum2 == ColSum(frame, column2)
    IN  IF sum2 # 0
        THEN <<Kpi("ratio_" \o column1 \o "_" \o column2, Num(sum1, sum2), "ratio", "None",
                   "ratio", <<column1, column2>>)>>
        ELSE <<>>

\* percentages = df[column] / total * 100, and their mean.
build_percentage_kpi(frame, column) ==
    LET total == ColSum(frame, column)
    IN  IF total # 0
        THEN <<Kpi("percentage_" \o column,
                   Num(100 * total, total * Len(dropna(Column(frame, column)))),
                   "percentage", "None", "percentage", <<column>>)>>
        ELSE <<>>

build_basic_kpis(frame, numeric_cols) ==
    ConcatAll([c \in 1..Len(numeric_cols) |->
        build_sum_kpi(frame, numeric_cols[c])
        \o build_average_kpi(frame, numeric_cols[c])
        \o build_count_kpi(frame, numeric_cols[c])])

build_categorical_kpis(frame, categorical_cols, numeric_cols) ==
    ConcatAll([c \in 1..Len(categorical_cols) |->
        build_top_category_kpi(frame, categorical_cols[c])
        \o ConcatAll([n \in 1..Len(numeric_cols) |->
              build_category_sum_kpi(frame, categorical_cols[c], numeric_cols[n])])])

build_time_based_kpis(frame, date_cols, numeric_cols) ==
    ConcatAll([d \in 1..Len(date_cols) |->
        ConcatAll([n \in 1..Len(numeric_cols) |->
            build_growth_kpi(frame, date_cols[d], numeric_cols[n])
            \o build_period_comparison_kpi(frame, date_cols[d], numeric_cols[n])])])

build_derived_kpis(frame, numeric_cols) ==
    (IF Len(numeric_cols) >= 2
     THEN build_ratio_kpi(frame, numeric_cols[1], numeric_cols[2])
     ELSE <<>>)
    \o ConcatAll([c \in 1..Len(numeric_cols) |-> build_percentage_kpi(frame, numeric_cols[c])])

build_kpis(frame) ==
    LET numeric_cols == select_dtypes(frame, "number")
        categorical_cols == select_dtypes(frame, "object")
        date_cols == select_dtypes(frame, "datetime64")
    IN  build_basic_kpis(frame, numeric_cols)
        \o build_categorical_kpis(frame, categorical_cols, numeric_cols)
        \o (IF date_cols # <<>>
            THEN build_time_based_kpis(frame, date_cols, numeric_cols)
            ELSE <<>>)
        \o build_derived_kpis(frame, numeric_cols)

InitKpi ==
    /\ pc = "kpi_input"
    /\ IsDatasetOf(df, KpiSchemas, KpiCells, MaxKpiRows)
    /\ kpi_out = Idle
    /\ insights = Idle
    /\ filters = Idle /\ payload = Idle /\ filtered = Idle /\ route_filtered = Idle
    /\ cleaner = Idle /\ cleaned = Idle /\ recleaned = Idle
    /\ charts = Idle /\ kpis = Idle /\ recommendations = Idle /\ layout = Idle
    /\ passed = Idle /\ optimized = Idle /\ custom = Idle /\ custom_again = Idle

\* kpis = kpi_builder.build_kpis(df)
BuildKpis ==
    /\ pc = "kpi_input"
    /\ kpi_out' = build_kpis(df)
    /\ pc' = "kpis_built"
    /\ UNCHANGED <<df, layoutVars, trendVars, filterVars, cleanVars>>

NextKpi == BuildKpis

SpecKpi == InitKpi /\ [][NextKpi]_vars

(***************************************************************************)
(* KPI Synthesizer: properties                                             *)
(***************************************************************************)

\* C3: the KPIs returned by one build_kpis call have pairwise distinct ids.
C3_DistinctKpiIds ==
    pc = "kpis_built" =>
        \A i, j \in 1..Len(kpi_out) : i # j => kpi_out[i].id # kpi_out[j].id

Emitted(kind, of) == \E i \in 1..Len(kpi_out) : kpi_out[i].kind = kind /\ kpi_out[i].of = of

\* C8: build_kpis returns, and its list holds the ratio KPI exactly when
\* the second numeric column's sum is not 0, the growth KPI of a date and
\* value column exactly when there are two dates and the first date's total
\* is not 0, the period-change KPI exactly when the first-half sum is not 0,
\* the percentage KPI of a column exactly when its total is not 0, and the
\* sum, average and count KPIs of every numeric column in each case.
C8_ZeroDenominatorGuard ==
    pc = "kpis_built" =>
        LET numeric_cols == select_dtypes(df, "number")
            date_cols == select_dtypes(df, "datetime64")
        IN  /\ Len(numeric_cols) >= 2 =>
                  (Emitted("ratio", <<numeric_cols[1], numeric_cols[2]>>)
                      <=> ColSum(df, numeric_cols[2]) # 0)
            /\ \A i \in 1..Len(kpi_out) :
                  kpi_out[i].kind = "ratio" =>
                      Len(numeric_cols) >= 2 /\ kpi_out[i].of = <<numeric_cols[1], numeric_cols[2]>>
            /\ \A d \in RangeOf(date_cols), n \in RangeOf(numeric_cols) :
                  /\ Emitted("growth", <<d, n>>)
                        <=> /\ Len(daily_totals(df, d, n)) >= 2
                            /\ daily_totals(df, d, n)[1] # 0
                  /\ Emitted("period_comparison", <<d, n>>)
                        <=> PeriodSum(df, d, n, 1) # 0
            /\ \A n \in RangeOf(numeric_cols) :
                  /\ Emitted("percentage", <<n>>) <=> ColSum(df, n) # 0
                  /\ Emitted("sum", <<n>>)
                  /\ Emitted("average", <<n>>)
                  /\ Emitted("count", <<n>>)
            /\ \A i \in 1..Len(kpi_out) : kpi_out[i].value.d # 0 \/ kpi_out[i].kind = "average"

\* C8 witness: a run with a zero second-column sum, a zero first-date total
\* and a zero first-half sum, which still emits the basic KPIs.
C8_Witness ==
    /\ pc = "kpis_built"
    /\ LET numeric_cols == select_dtypes(df, "number")
           date_cols == select_dtypes(df, "datetime64")
       IN  /\ Len(numeric_cols) = 2 /\ Len(date_cols) = 1
           /\ ColSum(df, numeric_cols[2]) = 0
           /\ ColSum(df, numeric_cols[1]) # 0
           /\ Len(daily_totals(df, date_cols[1], numeric_cols[2])) = 2
           /\ daily_totals(df, date_cols[1], numeric_cols[2])[1] = 0
           /\ PeriodSum(df, date_cols[1], numeric_cols[2], 1) = 0
           /\ Emitted("growth", <<date_cols[1], numeric_cols[1]>>)
           /\ Len(kpi_out) >= 6

(***************************************************************************)
(* Insight Engine, trend analysis: services/recommender.py                 *)
(***************************************************************************)

\* Bound of the datasets handed to the trend analysis.
MaxTrendRows == 3

TrendSchemas ==
    {<<[name |-> "d", dtype |-> "datetime64"],
       [name |-> "a", dtype |-> "number"],
       [name |-> "b", dtype |-> "number"]>>}

\* Daily values that put the change on, between and beyond the 10% and 20%
\* thresholds, with zero and with negative first halves.
TrendCells(col) ==
    CASE col.name = "d" -> {TimeCell(ts) : ts \in {2, 4, 6}}
      [] col.name = "a" -> {NumCell(n) : n \in {0, 10, 11, 13}}
      [] col.name = "b" -> {NumCell(n) : n \in {-10, -12}}


\* df_copy.groupby(df_copy[date_column].dt.date)[value_column].sum()
trend_daily_totals(frame, date_column, value_column) ==
    daily_totals(frame, date_column, value_column)

\* The fraction n/d with d > 0.
Frac(n, d) == IF d < 0 THEN [n |-> -n, d |-> -d] ELSE [n |-> n, d |-> d]

\* abs(x) > bound, for the fraction x
AbsGreater(x, bound) == Abs(x.n) > bound * x.d

\* Mutant: the severity is decided on the signed change.
trend_severity_signed(change_percentage) ==
    IF change_percentage.n > 20 * change_percentage.d THEN "high"
    ELSE IF change_percentage.n > 10 * change_percentage.d THEN "medium"
    ELSE "low"

\* "high" if abs(change_percentage) > 20 else "medium" if abs(...) > 10 else "low"
trend_severity(change_percentage) ==
    IF AbsGreater(change_percentage, 20) THEN "high"
    ELSE IF AbsGreater(change_percentage, 10) THEN "medium"
    ELSE "low"

trend_strength(change_percentage) ==
    IF AbsGreater(change_percentage, 20) THEN "strong"
    ELSE IF AbsGreater(change_percentage, 10) THEN "moderate"
    ELSE "weak"

\* The insight of one date and value column, or nothing.  The means of the
\* halves are the fractions sum1/half and sum2/(n - half); of is not a key
\* of the dict: it records the column pair.
analyze_trend(frame, date_column, value_column) ==
    LET totals == trend_daily_totals(frame, date_column, value_column)
        n == Len(totals)
    IN  IF n >= 3
        THEN LET half == n \div 2
                 sum1 == SumSeq(SubSeq(totals, 1, half))
                 sum2 == SumSeq(SubSeq(totals, half + 1, n))
                 \* second_half > first_half
                 trend_direction ==
                    IF sum2 * half > sum1 * (n - half) THEN "increasing" ELSE "decreasing"
                 \* ((second_half - first_half) / first_half) * 100 if first_half != 0 else 0
                 change_percentage ==
                    IF sum1 # 0
                    THEN Frac(100 * (sum2 * half - sum1 * (n - half)), sum1 * (n - half))
                    ELSE Frac(0, 1)
             IN  <<[type |-> "trend",
                    severity |-> trend_severity(change_percentage),
                    data |-> [trend_direction |-> trend_direction,
                              change_percentage |-> change_percentage,
                              strength |-> trend_strength(change_percentage)],
                    of |-> <<date_column, value_column>>]>>
        ELSE <<>>

generate_trend_insights(frame, date_cols, numeric_cols) ==
    ConcatAll([d \in 1..Len(date_cols) |->
        ConcatAll([n \in 1..Len(numeric_cols) |->
            analyze_trend(frame, date_cols[d], numeric_cols[n])])])

InitTrend ==
    /\ pc = "trend_input"
    /\ IsDatasetOf(df, TrendSchemas, TrendCells, MaxTrendRows)
    /\ insights = Idle
    /\ kpi_out = Idle
    /\ filters = Idle /\ payload = Idle /\ filtered = Idle /\ route_filtered = Idle
    /\ cleaner = Idle /\ cleaned = Idle /\ recleaned = Idle
    /\ charts = Idle /\ kpis = Idle /\ recommendations = Idle /\ layout = Idle
    /\ passed = Idle /\ optimized = Idle /\ custom = Idle /\ custom_again = Idle

\* recommendations.extend(self._generate_trend_insights(df, date_cols, numeric_cols))
GenerateTrendInsights ==
    /\ pc = "trend_input"
    /\ insights' = generate_trend_insights(df, select_dtypes(df, "datetime64"),
                                           select_dtypes(df, "number"))
    /\ pc' = "trend_done"
    /\ UNCHANGED <<df, layoutVars, kpiVars, filterVars, cleanVars>>

NextTrend == GenerateTrendInsights

SpecTrend == InitTrend /\ [][NextTrend]_vars

(***************************************************************************)
(* Insight Engine, trend analysis: properties                              *)
(***************************************************************************)

SeverityTier(severity) ==
    CASE severity = "low" -> 1 [] severity = "medium" -> 2 [] severity = "high" -> 3

\* |x| > |y|, for fractions x and y
AbsFracGreater(x, y) == Abs(x.n) * y.d > Abs(y.n) * x.d

\* C9: of two trend insights the one with the larger |change_percentage|
\* never has the lower severity tier; the tier is medium exactly for
\* 10 < |change| <= 20 and high exactly for |change| > 20.
C9_TrendSeverityMonotone ==
    pc = "trend_done" =>
        /\ \A i \in 1..Len(insights) :
              LET change == insights[i].data.change_percentage
              IN  /\ insights[i].severity = "high" <=> AbsGreater(change, 20)
                  /\ insights[i].severity = "medium"
                        <=> AbsGreater(change, 10) /\ ~AbsGreater(change, 20)
                  /\ insights[i].severity \in {"low", "medium", "high"}
        /\ \A i, j \in 1..Len(insights) :
              AbsFracGreater(insights[i].data.change_percentage,
                             insights[j].data.change_percentage)
                 => SeverityTier(insights[i].severity) >= SeverityTier(insights[j].severity)

\* C9 witness: two trend insights of one run, a change of exactly 20%
\* rated medium and a larger change rated high.
C9_Witness ==
    /\ pc = "trend_done"
    /\ \E i, j \in 1..Len(insights) :
          /\ insights[i].data.change_percentage.n = 20 * insights[i].data.change_percentage.d
          /\ insights[i].severity = "medium"
          /\ AbsFracGreater(insights[j].data.change_percentage,
                            insights[i].data.change_percentage)
          /\ insights[j].severity = "high"

(***************************************************************************)
(* FilterBuilder (services/filter_builder.py).  A filter configuration is   *)
(* a dict: a record whose fields are the keys that are present.  A filter   *)
(* mapping, as built or as sent back in a request, is the sequence of its   *)
(* items (column, config) in insertion order.                               *)
(***************************************************************************)
MaxFilterRows == 2

\* Python's None, as a value of a filter key.
None == [t |-> "none", n |-> 0, s |-> ""]

\* dict.get(key, default).
Get(config, key, default) == IF key \in DOMAIN config THEN config[key] ELSE default

\* Series.min() and Series.max(): missing cells are skipped, and the result
\* is missing (nan, NaT) when no cell is left.
series_min(cells) ==
    LET present == dropna(cells)
    IN  IF present = <<>> THEN NaN
        ELSE CHOOSE m \in RangeOf(present) : \A v \in RangeOf(present) : m.n <= v.n

series_max(cells) ==
    LET present == dropna(cells)
    IN  IF present = <<>> THEN NaN
        ELSE CHOOSE m \in RangeOf(present) : \A v \in RangeOf(present) : m.n >= v.n

\* float(x): a number stays what it is and nan stays nan.
float(cell) == IF cell = NaN THEN NaN ELSE NumCell(cell.n)

\* Timestamp.strftime('%Y-%m-%d') of a timestamp in half days: the calendar
\* date, the time of day dropped.
strftime(cell) == "2024-01-0" \o ToString(DateOf(cell.n))

\* pd.to_datetime of a date string: midnight of that date.
to_datetime(text) == TimeCell(2 * (CHOOSE day \in 0..9 : strftime(TimeCell(2 * day)) = text))

\* str(value) and Series.astype(str), per cell.
str(cell) ==
    CASE cell.t = "str" -> cell.s
      [] cell.t = "num" -> ToString(cell.n)
      [] cell.t = "ts" -> strftime(cell) \o (IF cell.n % 2 = 0 THEN "" ELSE " 12:00:00")
      [] OTHER -> "nan"

\* _build_range_filter.  The step is the fraction n/d, 0/0 being nan.
build_range_filter(frame, column) ==
    LET min_val == float(series_min(Column(frame, column)))
        max_val == float(series_max(Column(frame, column)))
    IN  [type |-> "range",
         min |-> min_val,
         max |-> max_val,
         current_min |-> min_val,
         current_max |-> max_val,
         step |-> IF min_val = NaN \/ max_val = NaN THEN [n |-> 0, d |-> 0]
                  ELSE IF max_val # min_val THEN [n |-> max_val.n - min_val.n, d |-> 100]
                  ELSE [n |-> 1, d |-> 1]]

\* _build_date_filter: NaT.strftime raises, the except branch returns None.
build_date_filter(frame, column) ==
    LET min_date == series_min(Column(frame, column))
        max_date == series_max(Column(frame, column))
    IN  IF min_date = NaN THEN None
        ELSE [type |-> "date",
              min_date |-> strftime(min_date),
              max_date |-> strftime(max_date),
              current_start |-> strftime(min_date),
              current_end |-> strftime(max_date)]

\* The counts Series.value_counts() makes, as a stable sort would arrange
\* them: the distinct present values with their counts, most frequent
\* first, equal counts in order of first occurrence.
value_counts(cells) ==
    LET present == dropna(cells)
        firsts == SelectSeq([i \in 1..Len(present) |-> i],
                            LAMBDA i : \A j \in 1..(i - 1) : present[j] # present[i])
        count(i) == Cardinality({j \in 1..Len(present) : present[j] = present[i]})
        rank(k) == 1 + Cardinality({m \in 1..Len(firsts) :
                        \/ count(firsts[m]) > count(firsts[k])
                        \/ count(firsts[m]) = count(firsts[k]) /\ m < k})
    IN  [r \in 1..Len(firsts) |->
            LET k == CHOOSE k \in 1..Len(firsts) : rank(k) = r
            IN  [val |-> present[firsts[k]], count |-> count(firsts[k])]]

\* What Series.value_counts() can return.  It sorts the counts with
\* sort_values(ascending=False), whose sort (numpy's quicksort) is not a
\* stable one: the counts come out non-increasing, and values of equal
\* count in whatever order the sort leaves them.
value_counts_sorted(cells) ==
    LET counts == value_counts(cells)
        n == Len(counts)
    IN  {[r \in 1..n |-> counts[order[r]]] :
            order \in {f \in [1..n -> 1..n] :
                          /\ \A i, j \in 1..n : f[i] = f[j] => i = j
                          /\ \A i, j \in 1..n : i < j => counts[f[i]].count >= counts[f[j]].count}}

\* One outcome of value_counts() for every column of strings.
SortOutcomes(frame) ==
    LET names == {frame.columns[c].name : c \in {c \in 1..Len(frame.columns) :
                                                   frame.columns[c].dtype = "object"}}
    IN  {sorted \in [names -> UNION {value_counts_sorted(Column(frame, name)) : name \in names}] :
            \A name \in names : sorted[name] \in value_counts_sorted(Column(frame, name))}

\* Series.head(n).
head(s, n) == SubSeq(s, 1, IF Len(s) < n THEN Len(s) ELSE n)

\* _build_categorical_filter, counts being what value_counts() returned.
build_categorical_filter(frame, column, counts) ==
    LET top_values == head(counts, 20)
    IN  [type |-> "categorical",
         options |-> [i \in 1..Len(top_values) |->
                        [value |-> str(top_values[i].val),
                         label |-> str(top_values[i].val),
                         count |-> top_values[i].count]],
         selected |-> <<>>,
         multi_select |-> TRUE]

\* _build_text_filter.
build_text_filter(frame, column) == [type |-> "text", current_value |-> ""]

\* Series.nunique(): the distinct present values.
nunique(cells) == Cardinality(RangeOf(dropna(cells)))

\* _detect_filter_type.
detect_filter_type(frame, column, sorted) ==
    LET dtype == frame.columns[ColIndex(frame, column)].dtype
    IN  CASE dtype = "number" -> build_range_filter(frame, column)
          [] dtype = "datetime64" -> build_date_filter(frame, column)
          [] dtype = "object" ->
                IF nunique(Column(frame, column)) <= 50
                THEN build_categorical_filter(frame, column, sorted[column])
                ELSE build_text_filter(frame, column)
          [] OTHER -> None

\* build_filters: the columns that got a configuration, in column order.
build_filters(frame, sorted) ==
    LET items == [c \in 1..Len(frame.columns) |->
                    [column |-> frame.columns[c].name,
                     config |-> detect_filter_type(frame, frame.columns[c].name, sorted)]]
    IN  SelectSeq(items, LAMBDA item : item.config # None)

\* df.copy(): the rows under their labels, the RangeIndex of a dataset as it
\* is read from a file.
copy(frame) ==
    [columns |-> frame.columns, rows |-> frame.rows,
     index |-> IF "index" \in DOMAIN frame THEN frame.index
               ELSE [i \in 1..Len(frame.rows) |-> i]]

\* df[mask]: the rows whose cell in the column passes the test, with the
\* labels they had.
Where(frame, column, Test(_)) ==
    LET c == ColIndex(frame, column)
        keep == SelectSeq([i \in 1..Len(frame.rows) |-> i],
                          LAMBDA i : Test(frame.rows[i][c]))
    IN  [columns |-> frame.columns,
         rows |-> [k \in 1..Len(keep) |-> frame.rows[keep[k]]],
         index |-> [k \in 1..Len(keep) |-> frame.index[keep[k]]]]

\* cell >= bound and cell <= bound of a Series comparison: False wherever
\* the cell or the bound is missing.
Geq(cell, bound) == cell.t \in {"num", "ts"} /\ bound.t = cell.t /\ cell.n >= bound.n
Leq(cell, bound) == cell.t \in {"num", "ts"} /\ bound.t = cell.t /\ cell.n <= bound.n

\* The mutation of _apply_range_filter that reads the upper bound only when
\* the lower one is absent.
apply_range_filter_elif(frame, column, filter_config) ==
    LET current_min == Get(filter_config, "current_min", None)
        current_max == Get(filter_config, "current_max", None)
    IN  IF current_min # None
        THEN Where(frame, column, LAMBDA cell : Geq(cell, current_min))
        ELSE IF current_max # None
        THEN Where(frame, column, LAMBDA cell : Leq(cell, current_max))
        ELSE frame

\* _apply_range_filter.
apply_range_filter(frame, column, filter_config) ==
    LET current_min == Get(filter_config, "current_min", None)
        current_max == Get(filter_config, "current_max", None)
        after_min == IF current_min # None
                     THEN Where(frame, column, LAMBDA cell : Geq(cell, current_min))
                     ELSE frame
    IN  IF current_max # None
        THEN Where(after_min, column, LAMBDA cell : Leq(cell, current_max))
        ELSE after_min

\* The truth value of a string key: false for "" and for None, which a
\* string key holds as NoKey, as if it were absent.
Truthy(value) == value # NoKey /\ value # ""

\* _apply_date_filter.
apply_date_filter(frame, column, filter_config) ==
    LET current_start == Get(filter_config, "current_start", NoKey)
        current_end == Get(filter_config, "current_end", NoKey)
        after_start == IF Truthy(current_start)
                       THEN Where(frame, column,
                                  LAMBDA cell : Geq(cell, to_datetime(current_start)))
                       ELSE frame
    IN  IF Truthy(current_end)
        THEN Where(after_start, column, LAMBDA cell : Leq(cell, to_datetime(current_end)))
        ELSE after_start

\* _apply_categorical_filter.
apply_categorical_filter(frame, column, filter_config) ==
    LET selected_values == Get(filter_config, "selected", <<>>)
    IN  IF selected_values # <<>>
        THEN Where(frame, column, LAMBDA cell : str(cell) \in RangeOf(selected_values))
        ELSE frame

\* The characters of the strings text filters meet in the model.
Chars(text) ==
    CASE text = "" -> <<>>
      [] text = "nan" -> <<"n", "a", "n">>
      [] OTHER -> <<text>>

\* str.lower() of one character.
Lower(ch) == CASE ch = "X" -> "x" [] ch = "Y" -> "y" [] OTHER -> ch

\* Series.str.contains(pattern, case=False): the pattern is a regular
\* expression searched anywhere in the text; "." matches any character,
\* every other character of the model's patterns matches itself.
str_contains(text, pattern) ==
    \E at \in 1..(Len(text) + 1) :
        /\ at + Len(pattern) - 1 <= Len(text)
        /\ \A k \in 1..Len(pattern) :
              pattern[k] = "." \/ Lower(pattern[k]) = Lower(text[at + k - 1])

\* _apply_text_filter.
apply_text_filter(frame, column, filter_config) ==
    LET search_value == Get(filter_config, "current_value", "")
    IN  IF Truthy(search_value)
        THEN Where(frame, column,
                   LAMBDA cell : str_contains(Chars(str(cell)), Chars(search_value)))
        ELSE frame

\* What a call leaves when an exception escapes it.
Raised == [raised |-> "exception"]

\* A value of the payload that is a dict.  The other JSON values, strings
\* and numbers, are cells.
IsMapping(value) == "t" \notin DOMAIN value

\* df[column] >= bound, df[column] <= bound of a numeric column raise
\* TypeError when the bound is a string.
raises_type_error(frame, column, filter_config) ==
    /\ frame.columns[ColIndex(frame, column)].dtype = "number"
    /\ \E key \in {"current_min", "current_max"} :
          Get(filter_config, key, None).t = "str"

\* str.contains compiles the search string as a regular expression:
\* re.error for a string that is none, such as a lone "(", "[" or "*".
raises_re_error(filter_config) ==
    Get(filter_config, "current_value", "") \in {"(", "[", "*"}

\* One turn of the loop of apply_filters.  filter_config.get of a value that
\* is no dict raises AttributeError.
apply_filter(frame, item) ==
    LET filter_type == Get(item.config, "type", NoKey)
    IN  IF item.column \notin RangeOf(Names(frame)) THEN frame
        ELSE IF ~IsMapping(item.config) THEN Raised
        ELSE CASE filter_type = "range" ->
                    IF raises_type_error(frame, item.column, item.config) THEN Raised
                    ELSE apply_range_filter(frame, item.column, item.config)
               [] filter_type = "date" ->
                    apply_date_filter(frame, item.column, item.config)
               [] filter_type = "categorical" ->
                    apply_categorical_filter(frame, item.column, item.config)
               [] filter_type = "text" ->
                    IF raises_re_error(item.config) THEN Raised
                    ELSE apply_text_filter(frame, item.column, item.config)
               [] OTHER -> frame

\* apply_filters: the filters narrow a copy of the dataset one after another.
RECURSIVE apply_loop(_, _)
apply_loop(frame, items) ==
    IF items = <<>> \/ frame = Raised THEN frame
    ELSE apply_loop(apply_filter(frame, Head(items)), Tail(items))

apply_filters(frame, items) == apply_loop(copy(frame), items)

\* The datasets of the filter specification have two of three columns: a
\* numeric column that may hold missing values, a column of strings and a
\* column of timestamps.
FilterSchemas ==
    {<<[name |-> "x", dtype |-> "number"], [name |-> "c", dtype |-> "object"]>>,
     <<[name |-> "x", dtype |-> "number"], [name |-> "d", dtype |-> "datetime64"]>>,
     <<[name |-> "c", dtype |-> "object"], [name |-> "d", dtype |-> "datetime64"]>>}

FilterCells(col) ==
    CASE col.dtype = "number" -> {NumCell(1), NumCell(2), NaN}
      [] col.dtype = "object" -> {StrCell("X"), StrCell("Y")}
      [] col.dtype = "datetime64" -> {TimeCell(2), TimeCell(3)}

\* The configurations a request may hold for a column: filters of every
\* type on the column of their kind, with one bound, both or none, a filter
\* of no type and one of an unknown type.  The column a dataset lacks is
\* unknown to it.
PayloadConfigs(column) ==
    CASE column = "x" ->
            {[type |-> "range", current_min |-> NumCell(2)],
             [type |-> "range", current_min |-> None, current_max |-> NumCell(1)],
             [type |-> "range", current_min |-> None, current_max |-> None],
             [type |-> "range", current_min |-> NumCell(1), current_max |-> NumCell(1)],
             [type |-> "slider", current_min |-> NumCell(2)],
             [current_max |-> NumCell(1)]}
      [] column = "c" ->
            {[type |-> "categorical", selected |-> <<>>],
             [type |-> "categorical", selected |-> <<"X">>],
             [type |-> "categorical"],
             [type |-> "text", current_value |-> "y"],
             [type |-> "text", current_value |-> "."]}
      [] column = "d" ->
            {[type |-> "date", current_start |-> "2024-01-01", current_end |-> "2024-01-01"],
             [type |-> "date", current_start |-> "", current_end |-> "2024-01-02"],
             [type |-> "date", current_start |-> "2024-01-02"]}

\* What a payload holds for a column: nothing, or one item.
ItemsFor(column) ==
    {<<>>} \cup {<<[column |-> column, config |-> config]>> : config \in PayloadConfigs(column)}

InitFilter ==
    /\ pc = "filter_input"
    /\ IsDatasetOf(df, FilterSchemas, FilterCells, MaxFilterRows)
    /\ filters = Idle /\ payload = Idle /\ filtered = Idle /\ route_filtered = Idle
    /\ cleaner = Idle /\ cleaned = Idle /\ recleaned = Idle
    /\ kpi_out = Idle
    /\ insights = Idle
    /\ charts = Idle /\ kpis = Idle /\ recommendations = Idle /\ layout = Idle
    /\ passed = Idle /\ optimized = Idle /\ custom = Idle /\ custom_again = Idle

\* GET /filters: build_filters on the dataset.
BuildFilters ==
    /\ pc = "filter_input"
    /\ \E sorted \in SortOutcomes(df) : filters' = build_filters(df, sorted)
    /\ pc' = "filters_built"
    /\ UNCHANGED <<df, payload, filtered, route_filtered, layoutVars, kpiVars, trendVars, cleanVars>>

\* apply_filters with one filter exactly as build_filters made it.
ApplyBuiltFilter ==
    /\ pc = "filters_built"
    /\ \E i \in 1..Len(filters) :
          /\ payload' = <<filters[i]>>
          /\ filtered' = apply_filters(df, <<filters[i]>>)
    /\ pc' = "round_trip"
    /\ UNCHANGED <<df, filters, route_filtered, layoutVars, kpiVars, trendVars, cleanVars>>

\* apply_filters with the payload of a request: a dict, so at most one item
\* for a column.
ApplyFilters ==
    /\ pc = "filters_built"
    /\ \E x \in ItemsFor("x"), c \in ItemsFor("c"), d \in ItemsFor("d") :
          /\ payload' = x \o c \o d
          /\ filtered' = apply_filters(df, x \o c \o d)
    /\ pc' = "applied"
    /\ UNCHANGED <<df, filters, route_filtered, layoutVars, kpiVars, trendVars, cleanVars>>

\* The malformed values a request may hold for a column: a string or a
\* number in the place of the filter object, a filter without a type or of
\* an unknown type, a range whose bound is a string.
MalformedConfigs(column) ==
    {StrCell("all"), NumCell(1), [selected |-> <<"X">>], [type |-> "slider"]}
    \cup (IF column = "x"
          THEN {[type |-> "range", current_min |-> StrCell("low")],
                [type |-> "range", current_min |-> NumCell(1), current_max |-> StrCell("high")]}
          ELSE {})

\* The payload without its malformed items.
WellFormed(items) ==
    SelectSeq(items, LAMBDA item : item.config \notin MalformedConfigs(item.column))

\* apply_filters with a payload that holds one malformed item, before or
\* after the well-formed item of another column.
ApplyMalformedFilters ==
    /\ pc = "filters_built"
    /\ \E bad \in {"x", "c", "d"} :
          \E config \in MalformedConfigs(bad) :
              \E good \in {"x", "c", "d"} \ {bad} :
                  \E item \in ItemsFor(good) :
                      \E items \in {<<[column |-> bad, config |-> config]>> \o item,
                                    item \o <<[column |-> bad, config |-> config]>>} :
                          /\ payload' = items
                          /\ filtered' = apply_filters(df, items)
    /\ pc' = "applied_malformed"
    /\ UNCHANGED <<df, filters, route_filtered, layoutVars, kpiVars, trendVars, cleanVars>>

\* The strings a request may search a column of strings for.
SearchValues == {"", "x", "y", "z", ".", "(", "[", "*"}

\* apply_filters with a payload of one text filter on the column of strings.
ApplyTextSearch ==
    /\ pc = "filters_built"
    /\ "c" \in RangeOf(Names(df))
    /\ \E search_value \in SearchValues :
          LET items == <<[column |-> "c",
                          config |-> [type |-> "text", current_value |-> search_value]]>>
          IN  /\ payload' = items
              /\ filtered' = apply_filters(df, items)
    /\ pc' = "searched"
    /\ UNCHANGED <<df, filters, route_filtered, layoutVars, kpiVars, trendVars, cleanVars>>

(***************************************************************************)
(* The request layer's apply_filters: routes/dashboard.py                  *)
(***************************************************************************)

\* a or b of two string keys.
Or(a, b) == IF Truthy(a) THEN a ELSE b

\* One turn of the loop of the request layer's apply_filters: a range falls
\* back on min and max where the current bound is absent, a categorical
\* filter on values and a date filter on start_date and end_date; the
\* values of a categorical filter are looked up among the cells as they
\* are, a date bound is compared as the string it is (which a datetime
\* column parses), and a filter of another type is passed over.
route_apply_filter(frame, item) ==
    LET config == item.config
        type == Get(config, "type", NoKey)
    IN  IF item.column \notin RangeOf(Names(frame)) THEN frame
        ELSE IF ~IsMapping(config) THEN Raised
        ELSE CASE type = "range" ->
                    LET min_val == Get(config, "current_min", Get(config, "min", None))
                        max_val == Get(config, "current_max", Get(config, "max", None))
                        after_min == IF min_val # None
                                     THEN Where(frame, item.column,
                                                LAMBDA cell : Geq(cell, min_val))
                                     ELSE frame
                    IN  IF /\ frame.columns[ColIndex(frame, item.column)].dtype = "number"
                           /\ "str" \in {min_val.t, max_val.t}
                        THEN Raised
                        ELSE IF max_val # None
                        THEN Where(after_min, item.column, LAMBDA cell : Leq(cell, max_val))
                        ELSE after_min
               [] type = "categorical" ->
                    LET selected == Get(config, "selected", <<>>)
                        values == IF selected # <<>> THEN selected
                                  ELSE Get(config, "values", <<>>)
                    IN  IF values # <<>>
                        THEN Where(frame, item.column,
                                   LAMBDA cell : cell.t = "str" /\ cell.s \in RangeOf(values))
                        ELSE frame
               [] type = "date" ->
                    LET start_date == Or(Get(config, "current_start", NoKey),
                                         Get(config, "start_date", NoKey))
                        end_date == Or(Get(config, "current_end", NoKey),
                                       Get(config, "end_date", NoKey))
                        after_start == IF Truthy(start_date)
                                       THEN Where(frame, item.column,
                                                  LAMBDA cell : Geq(cell, to_datetime(start_date)))
                                       ELSE frame
                    IN  IF Truthy(end_date)
                        THEN Where(after_start, item.column,
                                   LAMBDA cell : Leq(cell, to_datetime(end_date)))
                        ELSE after_start
               [] OTHER -> frame

RECURSIVE route_apply_loop(_, _)
route_apply_loop(frame, items) ==
    IF items = <<>> \/ frame = Raised THEN frame
    ELSE route_apply_loop(route_apply_filter(frame, Head(items)), Tail(items))

route_apply_filters(frame, items) == route_apply_loop(copy(frame), items)

\* The filter states a request may hold for a column besides those of
\* PayloadConfigs: a range, a categorical and a date filter whose current
\* keys are absent.
FallbackConfigs(column) ==
    CASE column = "x" -> {[type |-> "range", min |-> NumCell(2), max |-> NumCell(2)]}
      [] column = "c" -> {[type |-> "categorical", values |-> <<"X">>]}
      [] column = "d" -> {[type |-> "date", start_date |-> "2024-01-02"]}

StateItemsFor(column) ==
    ItemsFor(column)
    \cup {<<[column |-> column, config |-> config]>> : config \in FallbackConfigs(column)}

\* The payload of one request goes through the request layer's
\* apply_filters and through FilterBuilder.apply_filters.
ApplyBothFilters ==
    /\ pc = "filters_built"
    /\ \E x \in StateItemsFor("x"), c \in StateItemsFor("c"), d \in StateItemsFor("d") :
          /\ payload' = x \o c \o d
          /\ filtered' = apply_filters(df, x \o c \o d)
          /\ route_filtered' = route_apply_filters(df, x \o c \o d)
    /\ pc' = "applied_both"
    /\ UNCHANGED <<df, filters, layoutVars, kpiVars, trendVars, cleanVars>>

NextFilter ==
    \/ BuildFilters
    \/ ApplyBuiltFilter
    \/ ApplyFilters
    \/ ApplyMalformedFilters
    \/ ApplyTextSearch
    \/ ApplyBothFilters

SpecFilter == InitFilter /\ [][NextFilter]_vars

(***************************************************************************)
(* Properties of the filters.                                              *)
(***************************************************************************)

\* C6: applying the range filter build_filters made for a numeric column
\* returns exactly the rows of the dataset, in their order.
C6_RangeRoundTrip ==
    pc = "round_trip" /\ payload[1].config.type = "range" =>
        /\ filtered.rows = df.rows
        /\ filtered.index = [i \in 1..Len(df.rows) |-> i]

\* The round trip does succeed on a numeric column with no missing value.
RoundTripWithoutMissing ==
    /\ pc = "round_trip"
    /\ payload[1].config.type = "range"
    /\ Len(df.rows) = MaxFilterRows
    /\ NaN \notin RangeOf(Column(df, payload[1].column))
    /\ filtered.rows = df.rows

\* Whether a value lies within the bounds of a range or date filter; a
\* bound that is not there does not restrict, and a missing value lies
\* within no bound.
Within(cell, lower, upper) ==
    /\ lower.t # "none" => cell # NaN /\ cell.t = lower.t /\ lower.n <= cell.n
    /\ upper.t # "none" => cell # NaN /\ cell.t = upper.t /\ cell.n <= upper.n

\* The bound a date filter holds under a key, None when the key is absent or
\* holds no date.
DateBound(config, key) ==
    IF key \in DOMAIN config /\ config[key] \notin {"", NoKey}
    THEN to_datetime(config[key]) ELSE None

\* Whether the filter of a payload item holds for a row of the dataset.
FilterHolds(frame, row, item) ==
    LET cell == row[ColIndex(frame, item.column)]
        config == item.config
        type == IF "type" \in DOMAIN config THEN config.type ELSE NoKey
    IN  CASE type = "range" ->
                Within(cell,
                       IF "current_min" \in DOMAIN config THEN config.current_min ELSE None,
                       IF "current_max" \in DOMAIN config THEN config.current_max ELSE None)
          [] type = "date" ->
                Within(cell, DateBound(config, "current_start"),
                       DateBound(config, "current_end"))
          [] type = "categorical" ->
                "selected" \in DOMAIN config /\ config.selected # <<>>
                    => \E k \in 1..Len(config.selected) : config.selected[k] = str(cell)
          [] type = "text" ->
                "current_value" \in DOMAIN config /\ config.current_value # ""
                    => str_contains(Chars(str(cell)), Chars(config.current_value))
          [] OTHER -> TRUE

\* The labels of the rows every filter on a column of the dataset holds for.
Retained(frame, items) ==
    SelectSeq([i \in 1..Len(frame.rows) |-> i],
              LAMBDA i : \A k \in 1..Len(items) :
                            items[k].column \in RangeOf(Names(frame))
                                => FilterHolds(frame, frame.rows[i], items[k]))

\* The orders n items can be put in.
Orders ==
    [n \in 0..3 |-> {f \in [1..n -> 1..n] : \A i, j \in 1..n : f[i] = f[j] => i = j}]

\* C7: apply_filters retains a row iff every filter of the payload whose
\* column exists holds for it; the filters on columns the dataset lacks have
\* no effect and the order of the filters does not change the result.
C7_RetainsIffAllHold ==
    pc \in {"applied", "round_trip"} =>
        /\ filtered.index = Retained(df, payload)
        /\ filtered.rows = [k \in 1..Len(filtered.index) |-> df.rows[filtered.index[k]]]
        /\ filtered.columns = df.columns
        /\ filtered = apply_filters(df, SelectSeq(payload,
                          LAMBDA item : item.column \in RangeOf(Names(df))))
        /\ \A order \in Orders[Len(payload)] :
              apply_filters(df, [k \in 1..Len(payload) |-> payload[order[k]]]) = filtered

\* C7 witness: a payload of a range filter with both bounds, a second
\* filter and a filter on a column the dataset lacks, each of the first two
\* rejecting a row the other accepts.
C7_Witness ==
    /\ pc = "applied"
    /\ Len(df.rows) = MaxFilterRows
    /\ \E k \in 1..Len(payload) : payload[k].column \notin RangeOf(Names(df))
    /\ \E a, b \in 1..Len(payload) :
          /\ payload[a].column = "x" /\ payload[b].column \in RangeOf(Names(df)) \ {"x"}
          /\ DOMAIN payload[a].config = {"type", "current_min", "current_max"}
          /\ payload[a].config.type = "range"
          /\ payload[a].config.current_min # None
          /\ \E r, q \in 1..Len(df.rows) :
                /\ FilterHolds(df, df.rows[r], payload[a])
                /\ ~FilterHolds(df, df.rows[r], payload[b])
                /\ ~FilterHolds(df, df.rows[q], payload[a])
                /\ FilterHolds(df, df.rows[q], payload[b])
    /\ filtered.rows = <<>>

(***************************************************************************)
(* DataCleaner (services/cleaner.py).  The strings of the model are a few   *)
(* literals; what the string methods make of them is tabulated.  Numbers    *)
(* are multiples of 4, so that the median of a column and the median of     *)
(* the column cleaned once more are whole.                                  *)
(***************************************************************************)
MaxCleanRows == 3
MaxNumericRows == 5

\* DataCleaner(): the four column lists, empty.
DataCleaner ==
    [numeric_columns |-> <<>>, categorical_columns |-> <<>>,
     date_columns |-> <<>>, text_columns |-> <<>>]

\* The strings that parse as a date, and pd.to_datetime(errors='coerce') of
\* a cell: NaT for what does not parse.
IsDate(text) == \E day \in 0..9 : strftime(TimeCell(2 * day)) = text

to_datetime_coerce(cell) ==
    CASE cell.t = "ts" -> cell
      [] cell.t = "str" /\ IsDate(cell.s) -> to_datetime(cell.s)
      [] OTHER -> NaN

\* re.match of one of the four date patterns: a string that begins like a
\* date, whether or not it is one.
matches_date_pattern(text) == IsDate(text) \/ text \in {"2024-13-45", "2024-01-01x"}

\* pd.to_numeric(errors='coerce') of a cell.  A timestamp is its count of
\* time units since the epoch (hours here, nanoseconds there).
to_numeric(cell) ==
    CASE cell.t = "num" -> cell
      [] cell.t = "ts" -> NumCell(12 * cell.n)
      [] cell.t = "str" /\ cell.s \in {"8", "12"} -> NumCell(IF cell.s = "8" THEN 8 ELSE 12)
      [] OTHER -> NaN

\* str.strip() and str.title().
strip(text) == IF text = " x" THEN "x" ELSE text

title(text) ==
    CASE text = "x" -> "X"
      [] text = "y" -> "Y"
      [] text = "none" -> "None"
      [] text = "null" -> "Null"
      [] text = "nan" -> "Nan"
      [] text = "NaT" -> "Nat"
      [] text = "2024-01-01x" -> "2024-01-01X"
      [] OTHER -> text

\* Series.astype(str), per cell: missing is "nan", NaT in a datetime column.
astype_str(cell, dtype) == IF cell = NaN /\ dtype = "datetime64" THEN "NaT" ELSE str(cell)

\* The order of the strings a mode is picked among.
StrLess(a, b) ==
    LET order == <<" x", "12", "2024-01-01", "2024-01-01X", "2024-01-01x", "2024-01-02",
                   "2024-01-03",
                   "2024-13-45", "8", "NaT", "Nan", "Nat", "None", "Null", "Unknown", "X", "Y",
                   "nan", "none", "null", "x", "y">>
        at(text) == CHOOSE i \in 1..Len(order) : order[i] = text
    IN  at(a) < at(b)

\* Whether the lower-cased column name contains a date keyword.
has_date_keyword(name) == name \in {"created_at", "order_date", "date"}

\* _is_numeric_column: more than 80% of the present values are numeric.
is_numeric_column(cells) ==
    LET numeric_count == Len(dropna([i \in 1..Len(cells) |-> to_numeric(cells[i])]))
        total_count == Len(dropna(cells))
    IN  total_count > 0 /\ 10 * numeric_count > 8 * total_count

\* _is_date_column.
is_date_column(cells, col) ==
    \/ has_date_keyword(col.name)
    \/ LET sample_values == head(dropna(cells), 10)
           date_count == Len(SelectSeq(sample_values,
                              LAMBDA value : \/ col.dtype = "datetime64"
                                             \/ value.t = "str" /\ matches_date_pattern(value.s)))
       IN  Len(sample_values) > 0 /\ 10 * date_count > 7 * Len(sample_values)

\* _is_categorical_column.
is_categorical_column(cells) == 2 * nunique(cells) < Len(cells) /\ nunique(cells) < 50

\* A detection that asks for few distinct values before it asks for dates.
column_kind_categorical_first(frame, name) ==
    LET cells == Column(frame, name)
        col == frame.columns[ColIndex(frame, name)]
    IN  IF \A i \in 1..Len(cells) : cells[i] = NaN THEN "text"
        ELSE IF is_numeric_column(cells) THEN "numeric"
        ELSE IF is_categorical_column(cells) THEN "categorical"
        ELSE IF is_date_column(cells, col) THEN "date"
        ELSE "text"

\* The kind _detect_column_types gives a column.
column_kind(frame, name) ==
    LET cells == Column(frame, name)
        col == frame.columns[ColIndex(frame, name)]
    IN  IF \A i \in 1..Len(cells) : cells[i] = NaN THEN "text"
        ELSE IF is_numeric_column(cells) THEN "numeric"
        ELSE IF is_date_column(cells, col) THEN "date"
        ELSE IF is_categorical_column(cells) THEN "categorical"
        ELSE "text"

\* _detect_column_types: every column is appended to the list of its kind.
detect_column_types(self, frame) ==
    LET of_kind(kind) == SelectSeq(Names(frame), LAMBDA name : column_kind(frame, name) = kind)
    IN  [numeric_columns |-> self.numeric_columns \o of_kind("numeric"),
         categorical_columns |-> self.categorical_columns \o of_kind("categorical"),
         date_columns |-> self.date_columns \o of_kind("date"),
         text_columns |-> self.text_columns \o of_kind("text")]

\* df[column] = cells: the frame with one column replaced.
SetColumn(frame, name, cells, dtype) ==
    LET c == ColIndex(frame, name)
    IN  [frame EXCEPT
            !.columns = [frame.columns EXCEPT ![c] = [name |-> name, dtype |-> dtype]],
            !.rows = [r \in 1..Len(frame.rows) |-> [frame.rows[r] EXCEPT ![c] = cells[r]]]]

\* Four times Series.quantile(k/4) with its linear interpolation, of a
\* non-empty ascending sequence.
Quantile4(sorted, k) ==
    LET at == (k * (Len(sorted) - 1)) \div 4
        part == (k * (Len(sorted) - 1)) % 4
    IN  IF part = 0 THEN 4 * sorted[at + 1]
        ELSE 4 * sorted[at + 1] + part * (sorted[at + 2] - sorted[at + 1])

\* Whether a value is outside [Q1 - 1.5 * IQR, Q3 + 1.5 * IQR], the three
\* being given four times over.
IsOutlier(value, Q1, Q3) ==
    LET IQR == Q3 - Q1
    IN  \/ 8 * value < 2 * Q1 - 3 * IQR
        \/ 8 * value > 2 * Q3 + 3 * IQR

\* A cleaning whose fence is half an IQR beyond the quartiles.
clean_numeric_column_narrow(frame, name) ==
    LET coerced == [i \in 1..Len(frame.rows) |-> to_numeric(Column(frame, name)[i])]
        sorted == SortInts(Values(dropna(coerced)))
        Q1 == Quantile4(sorted, 1)
        Q3 == Quantile4(sorted, 3)
    IN  SetColumn(frame, name,
                  [i \in 1..Len(coerced) |->
                      IF coerced[i] # NaN
                         /\ (\/ 8 * coerced[i].n < 2 * Q1 - (Q3 - Q1)
                             \/ 8 * coerced[i].n > 2 * Q3 + (Q3 - Q1))
                      THEN NaN ELSE coerced[i]],
                  "number")

\* A cleaning that coerces the column and leaves the outliers in it.
clean_numeric_column_coerce_only(frame, name) ==
    SetColumn(frame, name,
              [i \in 1..Len(frame.rows) |-> to_numeric(Column(frame, name)[i])],
              "number")

\* One turn of the loop of _clean_numeric_columns.
clean_numeric_column(frame, name) ==
    LET coerced == [i \in 1..Len(frame.rows) |-> to_numeric(Column(frame, name)[i])]
        sorted == SortInts(Values(dropna(coerced)))
        Q1 == Quantile4(sorted, 1)
        Q3 == Quantile4(sorted, 3)
    IN  SetColumn(frame, name,
                  [i \in 1..Len(coerced) |->
                      IF coerced[i] # NaN /\ IsOutlier(coerced[i].n, Q1, Q3)
                      THEN NaN ELSE coerced[i]],
                  "number")

\* Series.replace(['', 'nan', 'None', 'null'], np.nan), per string.
replace_empty(text) == IF text \in {"", "nan", "None", "null"} THEN NaN ELSE StrCell(text)

\* One turn of the loop of _clean_categorical_columns.
clean_categorical_column(frame, name) ==
    LET dtype == frame.columns[ColIndex(frame, name)].dtype
    IN  SetColumn(frame, name,
                  [i \in 1..Len(frame.rows) |->
                      replace_empty(title(strip(astype_str(Column(frame, name)[i], dtype))))],
                  "object")

\* One turn of the loop of _clean_date_columns.
clean_date_column(frame, name) ==
    SetColumn(frame, name,
              [i \in 1..Len(frame.rows) |-> to_datetime_coerce(Column(frame, name)[i])],
              "datetime64")

\* One turn of the loop of _clean_text_columns.
clean_text_column(frame, name) ==
    LET dtype == frame.columns[ColIndex(frame, name)].dtype
    IN  SetColumn(frame, name,
                  [i \in 1..Len(frame.rows) |->
                      replace_empty(strip(astype_str(Column(frame, name)[i], dtype)))],
                  "object")

\* The loops of the four _clean_*_columns methods: the columns of a list
\* that are in the dataset, one after another.
RECURSIVE clean_columns(_, _, _)
clean_columns(frame, names, kind) ==
    IF names = <<>> THEN frame
    ELSE LET name == Head(names)
             next == IF name \notin RangeOf(Names(frame)) THEN frame
                     ELSE CASE kind = "numeric" -> clean_numeric_column(frame, name)
                            [] kind = "categorical" -> clean_categorical_column(frame, name)
                            [] kind = "date" -> clean_date_column(frame, name)
                            [] kind = "text" -> clean_text_column(frame, name)
         IN  clean_columns(next, Tail(names), kind)

\* Series.median(): of the present values, missing when there is none.
median(cells) ==
    LET sorted == SortInts(Values(dropna(cells)))
        n == Len(sorted)
    IN  IF n = 0 THEN NaN
        ELSE IF n % 2 = 1 THEN NumCell(sorted[(n + 1) \div 2])
        ELSE NumCell((sorted[n \div 2] + sorted[n \div 2 + 1]) \div 2)

\* Series.mode(): the most frequent present values, ascending.
mode(cells) ==
    LET present == dropna(cells)
        count(v) == Cardinality({i \in 1..Len(present) : present[i] = v})
        modes == {v \in RangeOf(present) : \A w \in RangeOf(present) : count(w) <= count(v)}
    IN  [k \in 1..Cardinality(modes) |->
            CHOOSE v \in modes : Cardinality({w \in modes : StrLess(w.s, v.s)}) = k - 1]

\* Series.fillna(value).
fillna(cells, value) == [i \in 1..Len(cells) |-> IF cells[i] = NaN THEN value ELSE cells[i]]

\* fillna(method='ffill'): the last present value before a missing one.
ffill(cells) ==
    [i \in 1..Len(cells) |->
        IF cells[i] # NaN \/ \A j \in 1..(i - 1) : cells[j] = NaN THEN cells[i]
        ELSE cells[CHOOSE j \in 1..(i - 1) :
                      cells[j] # NaN /\ \A k \in (j + 1)..(i - 1) : cells[k] = NaN]]

\* fillna(method='bfill'): the first present value after a missing one.
bfill(cells) ==
    [i \in 1..Len(cells) |->
        IF cells[i] # NaN \/ \A j \in (i + 1)..Len(cells) : cells[j] = NaN THEN cells[i]
        ELSE cells[CHOOSE j \in (i + 1)..Len(cells) :
                      cells[j] # NaN /\ \A k \in (i + 1)..(j - 1) : cells[k] = NaN]]

\* One turn of the loop of _handle_missing_values.
fill_column(self, frame, name) ==
    LET cells == Column(frame, name)
        dtype == frame.columns[ColIndex(frame, name)].dtype
    IN  IF name \in RangeOf(self.numeric_columns)
        THEN SetColumn(frame, name, fillna(cells, median(cells)), dtype)
        ELSE IF name \in RangeOf(self.categorical_columns)
        THEN LET mode_value == mode(cells)
             IN  IF mode_value # <<>>
                 THEN SetColumn(frame, name, fillna(cells, mode_value[1]), dtype)
                 ELSE SetColumn(frame, name, fillna(cells, StrCell("Unknown")), dtype)
        ELSE IF name \in RangeOf(self.date_columns)
        THEN SetColumn(frame, name, bfill(ffill(cells)), dtype)
        ELSE SetColumn(frame, name, fillna(cells, StrCell("Unknown")), dtype)

\* _handle_missing_values: the columns of the dataset, one after another.
RECURSIVE fill_columns(_, _, _)
fill_columns(self, frame, names) ==
    IF names = <<>> THEN frame
    ELSE fill_columns(self, fill_column(self, frame, Head(names)), Tail(names))

handle_missing_values(self, frame) == fill_columns(self, frame, Names(frame))

\* DataFrame.drop_duplicates(): a row equal to an earlier one is dropped,
\* the others keep their labels.
drop_duplicates(frame) ==
    LET keep == SelectSeq([i \in 1..Len(frame.rows) |-> i],
                          LAMBDA i : \A j \in 1..(i - 1) : frame.rows[j] # frame.rows[i])
    IN  [columns |-> frame.columns,
         rows |-> [k \in 1..Len(keep) |-> frame.rows[keep[k]]],
         index |-> [k \in 1..Len(keep) |-> frame.index[keep[k]]]]

\* The cleaning done on the dataset passed in, without the copy of it.
clean_data_in_place(self, frame) ==
    LET detected == detect_column_types(self, copy(frame))
        numeric == clean_columns(copy(frame), detected.numeric_columns, "numeric")
        categorical == clean_columns(numeric, detected.categorical_columns, "categorical")
        date == clean_columns(categorical, detected.date_columns, "date")
        text == clean_columns(date, detected.text_columns, "text")
        filled == handle_missing_values(detected, text)
    IN  [self |-> detected,
         cleaned_df |-> drop_duplicates(filled),
         df |-> [frame EXCEPT !.columns = filled.columns, !.rows = filled.rows]]

\* clean_data: the column lists the cleaner is left with, the dataset it
\* returns, and df, the dataset passed in as the call leaves it: every
\* assignment of the pipeline goes to the copy made first.
clean_data(self, frame) ==
    LET detected == detect_column_types(self, copy(frame))
        numeric == clean_columns(copy(frame), detected.numeric_columns, "numeric")
        categorical == clean_columns(numeric, detected.categorical_columns, "categorical")
        date == clean_columns(categorical, detected.date_columns, "date")
        text == clean_columns(date, detected.text_columns, "text")
    IN  [self |-> detected,
         cleaned_df |-> drop_duplicates(handle_missing_values(detected, text)),
         df |-> frame]

\* The datasets of the cleaner specification, as pd.read_csv hands them
\* over: columns of strings, one named for dates, one holding dates under
\* another name, one of labels, and a pair of a date and an amount.
CleanSchemas ==
    {<<[name |-> "created_at", dtype |-> "object"]>>,
     <<[name |-> "when", dtype |-> "object"]>>,
     <<[name |-> "c", dtype |-> "object"]>>,
     <<[name |-> "order_date", dtype |-> "object"], [name |-> "amount", dtype |-> "number"]>>}

\* A single numeric column, long enough for the quartiles to set a value
\* apart.
NumericSchemas == {<<[name |-> "x", dtype |-> "number"]>>}

CleanCells(col) ==
    CASE col.name = "created_at" ->
            {StrCell("2024-01-01"), StrCell("2024-01-02"), StrCell("x"), NaN}
      [] col.name = "when" ->
            {StrCell("2024-01-01"), StrCell("2024-13-45"), StrCell("x"), NaN}
      [] col.name = "c" ->
            {StrCell("x"), StrCell(" x"), StrCell("none"), StrCell("null"), StrCell("8"), NaN}
      [] col.name = "order_date" -> {StrCell("2024-01-01"), StrCell("2024-01-02"), NaN}
      [] col.name = "amount" -> {NumCell(0), NumCell(4), NaN}
      [] col.name = "x" -> {NumCell(n) : n \in {0, 4, 8, 32, 400}}

InitClean ==
    /\ pc = "clean_input"
    /\ \/ IsDatasetOf(df, CleanSchemas, CleanCells, MaxCleanRows)
       \/ IsDatasetOf(df, NumericSchemas, CleanCells, MaxNumericRows)
    /\ cleaner = Idle /\ cleaned = Idle /\ recleaned = Idle
    /\ filters = Idle /\ payload = Idle /\ filtered = Idle /\ route_filtered = Idle
    /\ kpi_out = Idle
    /\ insights = Idle
    /\ charts = Idle /\ kpis = Idle /\ recommendations = Idle /\ layout = Idle
    /\ passed = Idle /\ optimized = Idle /\ custom = Idle /\ custom_again = Idle

\* POST /upload: a new DataCleaner cleans the dataset.
CleanData ==
    /\ pc = "clean_input"
    /\ LET done == clean_data(DataCleaner, df)
       IN  /\ cleaner' = done.self
           /\ cleaned' = done.cleaned_df
    /\ pc' = "cleaned"
    /\ UNCHANGED <<df, recleaned, layoutVars, kpiVars, trendVars, filterVars>>

\* Another new DataCleaner cleans the cleaned dataset.
CleanAgain ==
    /\ pc = "cleaned"
    /\ LET done == clean_data(DataCleaner, cleaned)
       IN  /\ cleaner' = done.self
           /\ recleaned' = done.cleaned_df
    /\ pc' = "recleaned"
    /\ UNCHANGED <<df, cleaned, layoutVars, kpiVars, trendVars, filterVars>>

\* The DataCleaner that cleaned the dataset cleans once more, the same
\* dataset or the one it returned.
CleanWithSameCleaner ==
    /\ pc = "cleaned"
    /\ \E frame \in {df, cleaned} :
          LET done == clean_data(cleaner, frame)
          IN  /\ cleaner' = done.self
              /\ recleaned' = done.cleaned_df
    /\ pc' = "cleaned_twice"
    /\ UNCHANGED <<df, cleaned, layoutVars, kpiVars, trendVars, filterVars>>

NextClean == CleanData \/ CleanAgain \/ CleanWithSameCleaner

SpecClean == InitClean /\ [][NextClean]_vars

(***************************************************************************)
(* Properties of the cleaner.                                              *)
(***************************************************************************)

\* C4: cleaning is idempotent: a new DataCleaner applied to the cleaned
\* dataset returns a dataset equal to it.
C4_CleaningIdempotent ==
    pc = "recleaned" => recleaned = cleaned

\* C5: the dataset clean_data returns has no missing value in any column.
C5_NoMissingAfterClean ==
    pc = "cleaned" =>
        \A r \in 1..Len(cleaned.rows) : \A c \in 1..Len(cleaned.columns) :
            cleaned.rows[r][c] # NaN

\* The kinds whose list of the cleaner names a column.
KindsOf(self, name) ==
    {kind \in {"numeric", "categorical", "date", "text"} :
        LET list == CASE kind = "numeric" -> self.numeric_columns
                      [] kind = "categorical" -> self.categorical_columns
                      [] kind = "date" -> self.date_columns
                      [] OTHER -> self.text_columns
        IN  \E i \in 1..Len(list) : list[i] = name}

\* The conditions of the rules, on the cells of a column.
Present(cells) == {i \in 1..Len(cells) : cells[i] # NaN}

MostlyNumbers(cells) ==
    10 * Cardinality({i \in Present(cells) : to_numeric(cells[i]) # NaN})
        > 8 * Cardinality(Present(cells))

LooksLikeDates(cells) ==
    LET sample == {i \in Present(cells) : Cardinality({j \in Present(cells) : j < i}) < 10}
    IN  /\ sample # {}
        /\ 10 * Cardinality({i \in sample : cells[i].t = "str" /\ matches_date_pattern(cells[i].s)})
              > 7 * Cardinality(sample)

FewDistinct(cells) ==
    LET distinct == Cardinality({cells[i] : i \in Present(cells)})
    IN  2 * distinct < Len(cells) /\ distinct < 50

ListedColumns(self) ==
    self.numeric_columns \o self.categorical_columns \o self.date_columns \o self.text_columns

\* C13: after any sequence of clean_data calls on one DataCleaner, every
\* column of the dataset cleaned last stands exactly once in the four lists
\* together, and the lists name no column the dataset has not.
C13_ListsPartitionColumns ==
    pc \in {"cleaned", "cleaned_twice"} =>
        LET last == IF pc = "cleaned" THEN cleaned ELSE recleaned
            listed == ListedColumns(cleaner)
        IN  /\ \A c \in 1..Len(last.columns) :
                  Cardinality({i \in 1..Len(listed) : listed[i] = last.columns[c].name}) = 1
            /\ \A i \in 1..Len(listed) : \E c \in 1..Len(last.columns) :
                  last.columns[c].name = listed[i]

\* The lists do partition the columns after the first call on a cleaner.
ListsPartitionColumnsOnce ==
    pc = "cleaned" =>
        LET listed == ListedColumns(cleaner)
        IN  /\ \A c \in 1..Len(cleaned.columns) :
                  Cardinality({i \in 1..Len(listed) : listed[i] = cleaned.columns[c].name}) = 1
            /\ \A i \in 1..Len(listed) : \E c \in 1..Len(cleaned.columns) :
                  cleaned.columns[c].name = listed[i]

(***************************************************************************)
(* Properties of the synthesized filters.                                  *)
(***************************************************************************)

\* The number of rows of a column that hold a value, and the first of them.
RowsHolding(cells, value) == {r \in 1..Len(cells) : cells[r] # NaN /\ str(cells[r]) = value}

FirstHolding(cells, value) ==
    CHOOSE r \in RowsHolding(cells, value) : \A q \in RowsHolding(cells, value) : r <= q

\* The options of a categorical filter are the most frequent values of the
\* column, at most 20, each with the number of rows that hold it, in
\* non-increasing order of that number.
OptionsSortedAndCounted(cells, config) ==
    LET options == config.options
    IN  /\ Len(options) <= 20
        /\ config.selected = <<>>
        /\ \A i \in 1..Len(options) :
              /\ RowsHolding(cells, options[i].value) # {}
              /\ options[i].count = Cardinality(RowsHolding(cells, options[i].value))
        /\ \A i, j \in 1..Len(options) :
              /\ i < j => options[i].count >= options[j].count
              /\ i # j => options[i].value # options[j].value
        /\ \A r \in 1..Len(cells) :
              cells[r] # NaN =>
                 \/ \E i \in 1..Len(options) : options[i].value = str(cells[r])
                 \/ /\ Len(options) = 20
                    /\ \A i \in 1..Len(options) :
                          options[i].count >= Cardinality(RowsHolding(cells, str(cells[r])))

\* The options of equal count stand in the order their values are first
\* met in the column.
TiesInFirstEncounteredOrder(cells, config) ==
    \A i, j \in 1..Len(config.options) :
        i < j /\ config.options[i].count = config.options[j].count
            => FirstHolding(cells, config.options[i].value)
                  < FirstHolding(cells, config.options[j].value)

\* Every categorical filter build_filters made is sorted and counted.
CategoricalFiltersSortedAndCounted ==
    pc = "filters_built" =>
        \A k \in 1..Len(filters) :
            filters[k].config.type = "categorical"
                => OptionsSortedAndCounted(Column(df, filters[k].column), filters[k].config)

\* C11: a synthesized categorical filter lists at most the 20 most frequent
\* values in non-increasing count order, values of equal count in
\* first-encountered order, each with its exact count, and nothing selected.
C11_CategoricalTopValues ==
    pc = "filters_built" =>
        \A k \in 1..Len(filters) :
            filters[k].config.type = "categorical"
                => /\ OptionsSortedAndCounted(Column(df, filters[k].column), filters[k].config)
                   /\ TiesInFirstEncounteredOrder(Column(df, filters[k].column), filters[k].config)

(***************************************************************************)
(* Insight Engine, the analyses besides the trend: services/recommender.py *)
(* An insight is its type, its severity and its data; of is not a key of   *)
(* the dict: it records the columns the insight is about.                  *)
(***************************************************************************)

\* _detect_anomalies: the rows whose z-score exceeds 2.  With n present
\* values of sum S, a value v has z * z = (n*v - S)^2 * (n - 1) / Q, where Q
\* is the sum of the (n*v - S)^2; one value or equal values make the
\* z-scores nan, which exceed nothing.
detect_anomalies(frame, column) ==
    LET cells == Column(frame, column)
        present == dropna(cells)
        n == Len(present)
        total == SumSeq(Values(present))
        dev(cell) == n * cell.n - total
        squares == SumSeq([i \in 1..n |-> dev(present[i]) * dev(present[i])])
        anomalies == SelectSeq(present, LAMBDA cell :
                        /\ n >= 2
                        /\ squares > 0
                        /\ dev(cell) * dev(cell) * (n - 1) > 4 * squares)
        \* (len(anomalies) / len(df)) * 100
        anomaly_percentage == Frac(100 * Len(anomalies), Len(frame.rows))
    IN  IF Len(anomalies) > 0
        THEN <<[type |-> "anomaly",
                severity |-> IF anomaly_percentage.n > 10 * anomaly_percentage.d THEN "high"
                             ELSE IF anomaly_percentage.n > 5 * anomaly_percentage.d THEN "medium"
                             ELSE "low",
                data |-> [anomaly_count |-> Len(anomalies),
                          anomaly_percentage |-> anomaly_percentage,
                          max_anomaly_value |-> series_max(anomalies).n,
                          min_anomaly_value |-> series_min(anomalies).n],
                of |-> <<column>>]>>
        ELSE <<>>

generate_anomaly_insights(frame, numeric_cols) ==
    ConcatAll([c \in 1..Len(numeric_cols) |-> detect_anomalies(frame, numeric_cols[c])])

\* df[numeric_cols].corr() of two columns, as the square of the coefficient
\* and its sign: over the m rows where both are present,
\* r*r = (m*Sxy - Sx*Sy)^2 / ((m*Sxx - Sx^2) * (m*Syy - Sy^2)); nan (d = 0)
\* when one of the two does not vary.
corr(frame, column1, column2) ==
    LET xs == Column(frame, column1)
        ys == Column(frame, column2)
        both == SelectSeq([r \in 1..Len(xs) |-> r], LAMBDA r : xs[r] # NaN /\ ys[r] # NaN)
        m == Len(both)
        Sx == SumSeq([i \in 1..m |-> xs[both[i]].n])
        Sy == SumSeq([i \in 1..m |-> ys[both[i]].n])
        Sxx == SumSeq([i \in 1..m |-> xs[both[i]].n * xs[both[i]].n])
        Syy == SumSeq([i \in 1..m |-> ys[both[i]].n * ys[both[i]].n])
        Sxy == SumSeq([i \in 1..m |-> xs[both[i]].n * ys[both[i]].n])
        cov == m * Sxy - Sx * Sy
    IN  [square |-> Frac(cov * cov, (m * Sxx - Sx * Sx) * (m * Syy - Sy * Sy)),
         positive |-> cov > 0]

\* abs(corr_value) > 0.7
is_strong(corr_value) ==
    corr_value.square.d > 0 /\ 100 * corr_value.square.n > 49 * corr_value.square.d

\* strong_correlations.sort(key=lambda x: abs(x["correlation"]), reverse=True):
\* a stable sort, x goes behind the pairs of a strictly greater coefficient.
RECURSIVE sorted_by_correlation(_)
sorted_by_correlation(pairs) ==
    IF pairs = <<>> THEN <<>>
    ELSE LET x == Head(pairs)
             rest == sorted_by_correlation(Tail(pairs))
             greater(y) == y.correlation.square.n * x.correlation.square.d
                              > x.correlation.square.n * y.correlation.square.d
             k == Cardinality({i \in 1..Len(rest) : greater(rest[i])})
         IN  SubSeq(rest, 1, k) \o <<x>> \o SubSeq(rest, k + 1, Len(rest))

\* _analyze_correlations: the pairs of columns of a coefficient beyond 0.7.
analyze_correlations(frame, numeric_cols) ==
    LET n == Len(numeric_cols)
        pairs == ConcatAll([i \in 1..n |->
                    ConcatAll([j \in 1..n |->
                        IF i < j /\ is_strong(corr(frame, numeric_cols[i], numeric_cols[j]))
                        THEN <<[col1 |-> numeric_cols[i], col2 |-> numeric_cols[j],
                                correlation |-> corr(frame, numeric_cols[i], numeric_cols[j])]>>
                        ELSE <<>>])])
        strong_correlations == sorted_by_correlation(pairs)
    IN  IF strong_correlations # <<>>
        THEN <<[type |-> "correlation",
                severity |-> "medium",
                data |-> [strong_correlations |-> strong_correlations,
                          total_correlations_analyzed |-> Len(strong_correlations)],
                of |-> <<strong_correlations[1].col1, strong_correlations[1].col2>>]>>
        ELSE <<>>

generate_correlation_insights(frame, numeric_cols) ==
    IF Len(numeric_cols) >= 2 THEN analyze_correlations(frame, numeric_cols) ELSE <<>>

\* _perform_segmentation: three clusters of the rows complete in the first
\* two numeric columns, when there are more than 10 of them.  The segments
\* KMeans finds are not part of the record.
perform_segmentation(frame, categorical_cols, numeric_cols) ==
    IF Len(numeric_cols) >= 2
    THEN LET xs == Column(frame, numeric_cols[1])
             ys == Column(frame, numeric_cols[2])
             cluster_data == {r \in 1..Len(xs) : xs[r] # NaN /\ ys[r] # NaN}
         IN  IF Cardinality(cluster_data) > 10
             THEN <<[type |-> "segmentation",
                     severity |-> "medium",
                     data |-> [features_used |-> SubSeq(numeric_cols, 1, 2)],
                     of |-> SubSeq(numeric_cols, 1, 2)]>>
             ELSE <<>>
    ELSE <<>>

generate_segmentation_insights(frame, categorical_cols, numeric_cols) ==
    IF categorical_cols # <<>> /\ numeric_cols # <<>>
    THEN perform_segmentation(frame, categorical_cols, numeric_cols)
    ELSE <<>>

\* _generate_forecast: the line fitted to the n daily totals y at x = 0..n-1
\* has the slope (n*Sxy - Sx*Sy) / (n*Sxx - Sx^2); the mean of its next 7
\* values lies slope * (n + 7) / 2 above the mean of the totals.
generate_forecast(frame, date_column, value_column) ==
    LET totals == trend_daily_totals(frame, date_column, value_column)
        n == Len(totals)
    IN  IF n >= 7
        THEN LET Sx == SumSeq([i \in 1..n |-> i - 1])
                 Sxx == SumSeq([i \in 1..n |-> (i - 1) * (i - 1)])
                 Sy == SumSeq(totals)
                 Sxy == SumSeq([i \in 1..n |-> (i - 1) * totals[i]])
                 \* ((avg_forecast - avg_current) / avg_current) * 100 if avg_current != 0 else 0
                 forecast_change ==
                    IF Sy # 0
                    THEN Frac(100 * (n * Sxy - Sx * Sy) * (n + 7) * n,
                              2 * (n * Sxx - Sx * Sx) * Sy)
                    ELSE Frac(0, 1)
             IN  <<[type |-> "forecast",
                    severity |-> trend_severity(forecast_change),
                    data |-> [forecast_change |-> forecast_change,
                              forecast_period |-> "7 days"],
                    of |-> <<date_column, value_column>>]>>
        ELSE <<>>

generate_forecast_insights(frame, date_cols, numeric_cols) ==
    ConcatAll([d \in 1..Len(date_cols) |->
        ConcatAll([n \in 1..Len(numeric_cols) |->
            generate_forecast(frame, date_cols[d], numeric_cols[n])])])

generate_recommendations(frame) ==
    LET numeric_cols == select_dtypes(frame, "number")
        categorical_cols == select_dtypes(frame, "object")
        date_cols == select_dtypes(frame, "datetime64")
    IN  generate_trend_insights(frame, date_cols, numeric_cols)
        \o generate_anomaly_insights(frame, numeric_cols)
        \o generate_correlation_insights(frame, numeric_cols)
        \o generate_segmentation_insights(frame, categorical_cols, numeric_cols)
        \o generate_forecast_insights(frame, date_cols, numeric_cols)

(***************************************************************************)
(* Properties of apply_filters on malformed payloads.                      *)
(***************************************************************************)

\* A filter without a type tag or of an unknown one is passed over: the
\* rows are those the well-formed filters of the payload select.
UntypedFiltersIgnored ==
    pc = "applied_malformed" =>
        \A i \in 1..Len(payload) :
            (IsMapping(payload[i].config)
                /\ payload[i].config \in MalformedConfigs(payload[i].column)
                /\ Get(payload[i].config, "type", NoKey) # "range")
                    => filtered = apply_filters(df, WellFormed(payload))

\* C15: a malformed filter object of the payload (no mapping, no or an
\* unknown type tag, bounds of the wrong type) is ignored: apply_filters
\* raises nothing and returns the rows the well-formed filters select.
C15_MalformedIgnored ==
    pc = "applied_malformed" =>
        /\ filtered # Raised
        /\ filtered = apply_filters(df, WellFormed(payload))

(***************************************************************************)
(* Properties of the range filters.                                        *)
(***************************************************************************)

\* a <= b of two floats: false when one is nan.
FloatLeq(a, b) == a # NaN /\ b # NaN /\ a.n <= b.n

\* The bounds of a range filter are ordered and its step is the hundredth
\* of its width, or 1 for no width, and so positive.
RangeWellFormed(config) ==
    /\ FloatLeq(config.min, config.max)
    /\ FloatLeq(config.min, config.current_min)
    /\ FloatLeq(config.current_min, config.current_max)
    /\ FloatLeq(config.current_max, config.max)
    /\ config.step.d > 0
    /\ config.max # config.min => config.step.n * 100 = (config.max.n - config.min.n) * config.step.d
    /\ config.max = config.min => config.step.n = config.step.d
    /\ config.step.n > 0

\* The range filter of a column that holds a value is well formed.
RangeWellFormedWithValues ==
    pc = "filters_built" =>
        \A k \in 1..Len(filters) :
            (filters[k].config.type = "range" /\ dropna(Column(df, filters[k].column)) # <<>>)
                => RangeWellFormed(filters[k].config)

\* C17: every range filter of build_filters has min <= max,
\* min <= current_min <= current_max <= max, and the step (max - min)/100,
\* or 1 when max = min, which is strictly positive.
C17_RangeFilterOrdered ==
    pc = "filters_built" =>
        \A k \in 1..Len(filters) :
            filters[k].config.type = "range" => RangeWellFormed(filters[k].config)

(***************************************************************************)
(* The core stages, called one after the other on one dataset as           *)
(* test_setup.py calls them: clean_data, build_filters, apply_filters,     *)
(* build_kpis and generate_recommendations on the dataset, organize_layout *)
(* on three lists of components.                                           *)
(***************************************************************************)

\* Bound of the datasets handed to the stages.
MaxStageRows == 3

\* The empty dataset, the dataset of dates and sales, and one of labels and
\* sales.
StageSchemas ==
    {<<>>,
     <<[name |-> "date", dtype |-> "object"], [name |-> "sales", dtype |-> "number"]>>,
     <<[name |-> "c", dtype |-> "object"], [name |-> "sales", dtype |-> "number"]>>}

StageCells(col) ==
    CASE col.name = "date" -> {StrCell("2024-01-01"), StrCell("2024-01-02"), StrCell("2024-01-03")}
      [] col.name = "sales" -> {NumCell(100), NumCell(200), NumCell(50)}
      [] col.name = "c" -> {StrCell("X"), StrCell("Y")}

\* The lists handed to organize_layout: empty, or one component each.
StageComponents ==
    {[charts |-> [i \in 1..n |-> [uid |-> i, type |-> "bar"]],
      kpis |-> [i \in 1..n |-> [uid |-> i, id |-> "test_kpi"]],
      recommendations |-> [i \in 1..n |-> [uid |-> i, severity |-> "medium"]]] : n \in {0, 1}}

InitStages ==
    /\ pc = "stage_input"
    /\ IsDatasetOf(df, StageSchemas, StageCells, MaxStageRows)
    /\ df.columns = <<>> => df.rows = <<>>
    /\ \E components \in StageComponents :
          /\ charts = components.charts
          /\ kpis = components.kpis
          /\ recommendations = components.recommendations
    /\ layout = Idle
    /\ passed = Idle /\ optimized = Idle /\ custom = Idle /\ custom_again = Idle
    /\ cleaner = Idle /\ cleaned = Idle /\ recleaned = Idle
    /\ filters = Idle /\ payload = Idle /\ filtered = Idle /\ route_filtered = Idle
    /\ kpi_out = Idle
    /\ insights = Idle

\* cleaned_df = DataCleaner().clean_data(df)
StageCleanData ==
    /\ pc = "stage_input"
    /\ LET done == clean_data(DataCleaner, df)
       IN  /\ cleaner' = done.self
           /\ cleaned' = done.cleaned_df
           /\ df' = done.df
    /\ pc' = "stage_cleaned"
    /\ UNCHANGED <<recleaned, layoutVars, kpiVars, trendVars, filterVars>>

\* filters = FilterBuilder().build_filters(cleaned_df)
StageBuildFilters ==
    /\ pc = "stage_cleaned"
    /\ \E sorted \in SortOutcomes(cleaned) : filters' = build_filters(cleaned, sorted)
    /\ pc' = "stage_filters"
    /\ UNCHANGED <<df, payload, filtered, route_filtered, layoutVars, kpiVars, trendVars, cleanVars>>

\* filtered_df = FilterBuilder().apply_filters(cleaned_df, filters): the
\* filters go back as they were built.  No statement of apply_filters
\* assigns into the dataset passed in: the loop works on a copy and rebinds
\* its local name to the selections.
StageApplyFilters ==
    /\ pc = "stage_filters"
    /\ payload' = filters
    /\ filtered' = apply_filters(cleaned, filters)
    /\ cleaned' = cleaned
    /\ pc' = "stage_filtered"
    /\ UNCHANGED <<df, filters, route_filtered, cleaner, recleaned, layoutVars, kpiVars, trendVars>>

\* kpis = KPIBuilder().build_kpis(cleaned_df)
StageBuildKpis ==
    /\ pc = "stage_filtered"
    /\ kpi_out' = build_kpis(cleaned)
    /\ pc' = "stage_kpis"
    /\ UNCHANGED <<df, layoutVars, trendVars, filterVars, cleanVars>>

\* recommendations = Recommender().generate_recommendations(cleaned_df)
StageGenerateRecommendations ==
    /\ pc = "stage_kpis"
    /\ insights' = generate_recommendations(cleaned)
    /\ pc' = "stage_insights"
    /\ UNCHANGED <<df, layoutVars, kpiVars, filterVars, cleanVars>>

\* layout = LayoutManager().organize_layout(charts, kpis, recommendations)
StageOrganizeLayout ==
    /\ pc = "stage_insights"
    /\ layout' = organize_layout(charts, kpis, recommendations)
    /\ pc' = "stage_layout"
    /\ UNCHANGED <<charts, kpis, recommendations, composeVars, df, kpiVars, trendVars,
                 filterVars, cleanVars>>

NextStages ==
    \/ StageCleanData
    \/ StageBuildFilters
    \/ StageApplyFilters
    \/ StageBuildKpis
    \/ StageGenerateRecommendations
    \/ StageOrganizeLayout

SpecStages == InitStages /\ [][NextStages]_vars

(***************************************************************************)
(* Properties of the stages.                                               *)
(***************************************************************************)

\* The stages that have run when the control is at a place.
StagesDone ==
    CASE pc = "stage_cleaned" -> {"clean"}
      [] pc = "stage_filters" -> {"clean", "filters"}
      [] pc = "stage_filtered" -> {"clean", "filters", "apply"}
      [] pc = "stage_kpis" -> {"clean", "filters", "apply", "kpis"}
      [] pc = "stage_insights" -> {"clean", "filters", "apply", "kpis", "insights"}
      [] pc = "stage_layout" -> {"clean", "filters", "apply", "kpis", "insights", "layout"}
      [] OTHER -> {}

\* C14: for the dataset of no column and no row no stage raises: clean_data
\* returns an empty dataset, build_filters an empty mapping, build_kpis and
\* generate_recommendations empty lists, and organize_layout of three empty
\* lists no section and total_components = 0.
C14_EmptyDatasetThroughStages ==
    /\ ("clean" \in StagesDone /\ df.columns = <<>> /\ df.rows = <<>>) =>
          /\ cleaned.columns = <<>> /\ cleaned.rows = <<>>
          /\ "filters" \in StagesDone => filters = <<>>
          /\ "apply" \in StagesDone =>
                filtered # Raised /\ filtered.columns = <<>> /\ filtered.rows = <<>>
          /\ "kpis" \in StagesDone => kpi_out = <<>>
          /\ "insights" \in StagesDone => insights = <<>>
    /\ ("layout" \in StagesDone /\ charts = <<>> /\ kpis = <<>> /\ recommendations = <<>>) =>
          /\ layout.sections = <<>>
          /\ layout.total_components = 0

\* The empty dataset has gone through every stage and the three empty lists
\* through organize_layout.
C14_Witness ==
    /\ pc = "stage_layout"
    /\ df.columns = <<>> /\ df.rows = <<>>
    /\ charts = <<>> /\ kpis = <<>> /\ recommendations = <<>>
    /\ cleaned.rows = <<>> /\ kpi_out = <<>> /\ insights = <<>>
    /\ layout.total_components = 0

InsideFence(frame, column) ==
    LET values == Values(Column(frame, column))
        sorted == SortInts(values)
    IN  \A i \in 1..Len(values) :
            ~IsOutlier(values[i], Quantile4(sorted, 1), Quantile4(sorted, 3))

\* The rows of a dataset that no earlier row equals.
FirstRows(frame) ==
    SelectSeq([i \in 1..Len(frame.rows) |-> i],
              LAMBDA i : \A j \in 1..(i - 1) : frame.rows[j] # frame.rows[i])

\* The KPIs of an id.
KpisOfId(id) == SelectSeq(kpi_out, LAMBDA kpi : kpi.id = id)

\* C18: when the numeric values of a dataset all lie inside the IQR fence,
\* clean_data keeps every row that no earlier row equals, with its value,
\* and build_kpis gives for each numeric column c a KPI sum_c of the sum of c
\* over the rows and a KPI count_c of the number of rows; for the dates and
\* sales (2024-01-01, 100), (2024-01-02, 200), (2024-01-03, 50) that is 3
\* rows, sum_sales = 350 and count_sales = 3.
C18_SumAndCountAfterCleaning ==
    ("kpis" \in StagesDone /\ "sales" \in RangeOf(Names(df)) /\ InsideFence(df, "sales")) =>
        LET first == FirstRows(df)
        IN  /\ Len(cleaned.rows) = Len(first)
            /\ \A k \in 1..Len(first) :
                  Column(cleaned, "sales")[k] = Column(df, "sales")[first[k]]
            /\ \A c \in 1..Len(cleaned.columns) :
                  cleaned.columns[c].dtype = "number" =>
                     LET column == cleaned.columns[c].name
                     IN  /\ \E i \in 1..Len(kpi_out) :
                               /\ kpi_out[i].id = "sum_" \o column
                               /\ kpi_out[i].value
                                     = Num(SumSeq(Values(Column(cleaned, column))), 1)
                         /\ \E i \in 1..Len(kpi_out) :
                               /\ kpi_out[i].id = "count_" \o column
                               /\ kpi_out[i].value = Num(Len(cleaned.rows), 1)
            /\ (Names(df) = <<"date", "sales">>
                  /\ Column(df, "date")
                        = <<StrCell("2024-01-01"), StrCell("2024-01-02"), StrCell("2024-01-03")>>
                  /\ Column(df, "sales") = <<NumCell(100), NumCell(200), NumCell(50)>>)
                  => /\ Len(cleaned.rows) = 3
                     /\ KpisOfId("sum_sales") # <<>>
                     /\ \A i \in 1..Len(KpisOfId("sum_sales")) :
                           KpisOfId("sum_sales")[i].value = Num(350, 1)
                     /\ KpisOfId("count_sales") # <<>>
                     /\ \A i \in 1..Len(KpisOfId("count_sales")) :
                           KpisOfId("count_sales")[i].value = Num(3, 1)

\* The three days of sales have been cleaned and their KPIs built.
C18_Witness ==
    /\ pc = "stage_kpis"
    /\ Names(df) = <<"date", "sales">>
    /\ Column(df, "date")
          = <<StrCell("2024-01-01"), StrCell("2024-01-02"), StrCell("2024-01-03")>>
    /\ Column(df, "sales") = <<NumCell(100), NumCell(200), NumCell(50)>>
    /\ \E i \in 1..Len(kpi_out) : kpi_out[i].id = "sum_sales" /\ kpi_out[i].value = Num(350, 1)

(***************************************************************************)
(* Layout Composer, the reordering step and the custom layouts:            *)
(* utils/layout.py                                                         *)
(***************************************************************************)

\* Bound of the components handed to the composer.
MaxComponents == 2

\* sections.sort(key=lambda x: x.get("priority", 999)): a stable sort, x
\* goes behind the sections of a priority not greater than its own.
RECURSIVE sorted_by_priority(_)
sorted_by_priority(sections) ==
    IF sections = <<>> THEN <<>>
    ELSE LET x == sections[Len(sections)]
             rest == sorted_by_priority(SubSeq(sections, 1, Len(sections) - 1))
             k == Cardinality({i \in 1..Len(rest) : rest[i].priority <= x.priority})
         IN  SubSeq(rest, 1, k) \o <<x>> \o SubSeq(rest, k + 1, Len(rest))

\* The breakpoints optimize_layout adds.
responsive ==
    [breakpoints |->
        [xs |-> [max_width |-> 576, columns |-> 1],
         sm |-> [max_width |-> 768, columns |-> 2],
         md |-> [max_width |-> 992, columns |-> 3],
         lg |-> [max_width |-> 1200, columns |-> 4],
         xl |-> [min_width |-> 1201, columns |-> 4]]]

\* optimize_layout: the layout it returns and the layout passed in as the
\* call leaves it.  layout.copy() is a shallow copy: the two dicts hold the
\* same list of sections, which sort() orders in place; the key responsive
\* is set in the copy alone.
optimize_layout(l) ==
    LET sections == sorted_by_priority(l.sections)
    IN  [optimized_layout |->
            [sections |-> sections,
             total_components |-> l.total_components,
             layout_type |-> l.layout_type,
             responsive |-> responsive],
         layout |-> [l EXCEPT !.sections = sections]]

\* The position of the i-th component (from 0) under each layout type;
\* heights holds the numbers random.randint(1, 3) returns.
create_grid_layout(components) ==
    [type |-> "grid", columns |-> 3, gap |-> "16px",
     components |->
        [j \in 1..Len(components) |->
            [id |-> "component_" \o ToString(j - 1),
             data |-> components[j],
             position |-> [row |-> (j - 1) \div 3, col |-> (j - 1) % 3,
                           width |-> 4, height |-> 2]]]]

create_list_layout(components) ==
    [type |-> "list", direction |-> "vertical", gap |-> "12px",
     components |->
        [j \in 1..Len(components) |->
            [id |-> "component_" \o ToString(j - 1),
             data |-> components[j],
             position |-> [row |-> j - 1, col |-> 0, width |-> 12, height |-> 1]]]]

create_masonry_layout(components, heights) ==
    [type |-> "masonry", columns |-> 3, gap |-> "16px",
     components |->
        [j \in 1..Len(components) |->
            [id |-> "component_" \o ToString(j - 1),
             data |-> components[j],
             position |-> [row |-> (j - 1) \div 3, col |-> (j - 1) % 3,
                           width |-> 4, height |-> heights[j]]]]]

create_default_layout(components) ==
    [type |-> "default",
     components |->
        [j \in 1..Len(components) |->
            [id |-> "component_" \o ToString(j - 1),
             data |-> components[j],
             position |-> [row |-> j - 1, col |-> 0, width |-> 12, height |-> 2]]]]

create_custom_layout(components, layout_type, heights) ==
    CASE layout_type = "grid" -> create_grid_layout(components)
      [] layout_type = "list" -> create_list_layout(components)
      [] layout_type = "masonry" -> create_masonry_layout(components, heights)
      [] OTHER -> create_default_layout(components)

\* The layout types of a call: the three known ones and an unknown one.
LayoutTypes == {"grid", "list", "masonry", "tiles"}

\* The inputs of the composer: charts of every kind, no or one KPI, no or
\* one insight.
ComposeCharts ==
    {cs \in SeqsUpTo([uid : 1..MaxComponents, type : ChartTypes], MaxComponents) :
        \A i \in 1..Len(cs) : cs[i].uid = i}

\* The orders a caller may hand the sections of a layout over in.
Arrangements(sections) ==
    LET n == Len(sections)
    IN  {[i \in 1..n |-> sections[order[i]]] :
            order \in {f \in [1..n -> 1..n] : \A i, j \in 1..n : f[i] = f[j] => i = j}}

InitCompose ==
    /\ pc = "compose_input"
    /\ charts \in ComposeCharts
    /\ kpis \in {<<>>, <<[uid |-> 1, id |-> "test_kpi"]>>}
    /\ recommendations \in {<<>>, <<[uid |-> 1, severity |-> "medium"]>>}
    /\ layout = Idle
    /\ passed = Idle /\ optimized = Idle /\ custom = Idle /\ custom_again = Idle
    /\ df = Idle
    /\ kpi_out = Idle
    /\ insights = Idle
    /\ filters = Idle /\ payload = Idle /\ filtered = Idle /\ route_filtered = Idle
    /\ cleaner = Idle /\ cleaned = Idle /\ recleaned = Idle

\* layout = layout_manager.organize_layout(charts, kpis, recommendations)
ComposeLayout ==
    /\ pc = "compose_input"
    /\ layout' = organize_layout(charts, kpis, recommendations)
    /\ pc' = "composed"
    /\ UNCHANGED <<charts, kpis, recommendations, composeVars, df, kpiVars, trendVars,
                   filterVars, cleanVars>>

\* optimized = layout_manager.optimize_layout(layout), the sections of the
\* layout being in the order the caller has them in.
OptimizeLayout ==
    /\ pc = "composed"
    /\ \E sections \in Arrangements(layout.sections) :
          LET done == optimize_layout([layout EXCEPT !.sections = sections])
          IN  /\ passed' = [layout EXCEPT !.sections = sections]
              /\ layout' = done.layout
              /\ optimized' = done.optimized_layout
    /\ pc' = "optimized"
    /\ UNCHANGED <<charts, kpis, recommendations, custom, custom_again, df, kpiVars,
                   trendVars, filterVars, cleanVars>>

\* create_custom_layout(components, layout_type), twice on the same
\* arguments.
CreateCustomLayout ==
    /\ pc = "compose_input"
    /\ \E layout_type \in LayoutTypes :
          \E heights, heights_again \in [1..Len(charts) -> 1..3] :
              /\ custom' = create_custom_layout(charts, layout_type, heights)
              /\ custom_again' = create_custom_layout(charts, layout_type, heights_again)
    /\ pc' = "custom_made"
    /\ UNCHANGED <<charts, kpis, recommendations, layout, passed, optimized, df, kpiVars,
                   trendVars, filterVars, cleanVars>>

NextCompose == ComposeLayout \/ OptimizeLayout \/ CreateCustomLayout

SpecCompose == InitCompose /\ [][NextCompose]_vars

(***************************************************************************)
(* Properties of the reordering step and the custom layouts.               *)
(***************************************************************************)

\* The layouts of the types other than masonry are functions of the
\* arguments.
CustomLayoutPureButMasonry ==
    (pc = "custom_made" /\ custom.type # "masonry") => custom = custom_again

\* C19: the composer is a pure function: organize_layout, optimize_layout
\* and create_custom_layout, for every layout type, return equal layouts
\* when they are called twice on equal arguments.
C19_ComposerPure ==
    /\ pc = "custom_made" => custom = custom_again
    /\ pc = "composed" => layout = organize_layout(charts, kpis, recommendations)
    /\ pc = "optimized" => optimized = optimize_layout(passed).optimized_layout

\* The layout optimize_layout returns holds the sections passed in, in
\* ascending priority, those of one priority in the order they had, and the
\* breakpoints.
OptimizedSortedWithBreakpoints ==
    pc = "optimized" =>
        /\ optimized.responsive = responsive
        /\ optimized.sections \in Arrangements(passed.sections)
        /\ \A i, j \in 1..Len(optimized.sections) :
              i < j => optimized.sections[i].priority <= optimized.sections[j].priority
        /\ DOMAIN layout = DOMAIN passed

\* C20: optimize_layout leaves the layout passed to it as it was: the same
\* sections in the same order and no further key; only the layout it
\* returns is sorted by ascending priority and carries the breakpoints.
C20_InputLayoutUnchanged ==
    pc = "optimized" => layout = passed

(***************************************************************************)
(* The date detection by sampled values (cleaner.py, _is_date_column):     *)
(* one column of strings under a name without a date keyword, long enough   *)
(* for a sample of 10 values to be drawn from it.                           *)
(***************************************************************************)
MaxSampleRows == 11

\* A column of up to MaxSampleRows strings, each beginning like a date or
\* not, behind at most one leading empty cell.
SampleSchema == <<[name |-> "when", dtype |-> "object"]>>

SampleCells == {StrCell("2024-01-01"), StrCell("x")}

InitSample ==
    /\ pc = "sample_input"
    /\ \E k \in 0..MaxSampleRows, lead \in 0..1 :
          /\ lead <= k
          /\ \E cells \in [1..(k - lead) -> SampleCells] :
                df = [columns |-> SampleSchema,
                      rows |-> [i \in 1..k |-> IF i <= lead THEN <<NaN>>
                                               ELSE <<cells[i - lead]>>]]
    /\ cleaner = Idle /\ cleaned = Idle /\ recleaned = Idle
    /\ filters = Idle /\ payload = Idle /\ filtered = Idle /\ route_filtered = Idle
    /\ kpi_out = Idle
    /\ insights = Idle
    /\ charts = Idle /\ kpis = Idle /\ recommendations = Idle /\ layout = Idle
    /\ passed = Idle /\ optimized = Idle /\ custom = Idle /\ custom_again = Idle

\* POST /upload: a new DataCleaner cleans the dataset.
SampleCleanData ==
    /\ pc = "sample_input"
    /\ LET done == clean_data(DataCleaner, df)
       IN  /\ cleaner' = done.self
           /\ cleaned' = done.cleaned_df
    /\ pc' = "sampled"
    /\ UNCHANGED <<df, recleaned, layoutVars, kpiVars, trendVars, filterVars>>

NextSample == SampleCleanData

SpecSample == InitSample /\ [][NextSample]_vars

\* The up-to-10 sampled present values of a column, and how many of them
\* match a date pattern.
SampledValues(cells) == head(dropna(cells), 10)

SampledMatches(cells) ==
    Len(SelectSeq(SampledValues(cells),
                  LAMBDA value : value.t = "str" /\ matches_date_pattern(value.s)))

\* A column of strings under a name without a date keyword is a date column
\* when more than 70% of its sampled values match a date pattern.
DateAboveSeventyPercent ==
    pc = "sampled" =>
        \A c \in 1..Len(df.columns) :
            LET name == df.columns[c].name
                cells == Column(df, name)
            IN  (/\ ~is_numeric_column(cells)
                 /\ ~has_date_keyword(name)
                 /\ Len(SampledValues(cells)) > 0)
                => (name \in RangeOf(cleaner.date_columns)
                    <=> 10 * SampledMatches(cells) > 7 * Len(SampledValues(cells)))

\* C21: a non-numeric column whose name has no date keyword is classified
\* date when at least 70% of its up-to-10 sampled present values match a
\* date pattern, a column with exactly 7 of 10 matching among them.
C21_DateAtSeventyPercent ==
    pc = "sampled" =>
        \A c \in 1..Len(df.columns) :
            LET name == df.columns[c].name
                cells == Column(df, name)
            IN  (/\ ~is_numeric_column(cells)
                 /\ ~has_date_keyword(name)
                 /\ Len(SampledValues(cells)) > 0
                 /\ 10 * SampledMatches(cells) >= 7 * Len(SampledValues(cells)))
                => name \in RangeOf(cleaner.date_columns)

(***************************************************************************)
(* Placeholders in categorical columns (SpecClean).                         *)
(***************************************************************************)

\* The cells clean_data left in the categorical columns of the dataset it
\* returned.
CategoricalCells ==
    UNION {RangeOf(Column(cleaned, name)) :
              name \in RangeOf(cleaner.categorical_columns) \cap RangeOf(Names(cleaned))}

\* No output cell of a categorical column is missing, empty or "None".
EmptyAndNoneLiteralsFilled ==
    pc = "cleaned" =>
        \A cell \in CategoricalCells : cell # NaN /\ cell.s \notin {"", "None", "none"}

\* C22: in a categorical column every empty string, every "none" / "null"
\* literal and every missing cell becomes missing and is filled with the
\* mode, so no output cell holds a placeholder such as "Nan", "Null" or
\* "None".
C22_NoPlaceholderInCategorical ==
    pc = "cleaned" =>
        \A cell \in CategoricalCells :
            /\ cell # NaN
            /\ cell.s \notin {"", "Nan", "nan", "Null", "null", "None", "none"}

(***************************************************************************)
(* Text search (SpecFilter).                                                *)
(***************************************************************************)

\* Whether a text holds a string as a literal substring, letter case aside.
holds_literally(text, search) ==
    \E at \in 1..(Len(text) + 1) :
        /\ at + Len(search) - 1 <= Len(text)
        /\ \A k \in 1..Len(search) : Lower(search[k]) = Lower(text[at + k - 1])

\* The labels of the rows whose text in the column holds the search string
\* literally.
HoldingLiterally(frame, column, search_value) ==
    SelectSeq([i \in 1..Len(frame.rows) |-> i],
              LAMBDA i : holds_literally(Chars(str(Column(frame, column)[i])),
                                         Chars(search_value)))

\* A search string of letters retains exactly the rows that hold it, letter
\* case aside, and the empty one retains every row.
LetterSearchIsLiteral ==
    pc = "searched" /\ payload[1].config.current_value \in {"", "x", "y", "z"} =>
        /\ filtered # Raised
        /\ filtered.index = HoldingLiterally(df, "c", payload[1].config.current_value)

\* C23: a text filter retains exactly the rows whose value holds
\* current_value as a literal substring, letter case aside; every character,
\* '.', '*', '(' and '[' among them, is matched literally, no search string
\* makes apply_filters raise, and the empty string retains every row.
C23_TextSearchLiteral ==
    pc = "searched" =>
        /\ filtered # Raised
        /\ filtered.index = HoldingLiterally(df, "c", payload[1].config.current_value)

(***************************************************************************)
(* The segmentation analysis on datasets long enough for it to run         *)
(* (recommender.py, _perform_segmentation).                                *)
(***************************************************************************)
MaxSegmentRows == 11

\* A column of labels and two numeric columns, the first of which may hold
\* missing values; a dataset may lack the labels or the second numeric
\* column.
SegmentSchemas ==
    {<<[name |-> "c", dtype |-> "object"], [name |-> "x", dtype |-> "number"],
       [name |-> "y", dtype |-> "number"]>>,
     <<[name |-> "x", dtype |-> "number"], [name |-> "y", dtype |-> "number"]>>,
     <<[name |-> "c", dtype |-> "object"], [name |-> "x", dtype |-> "number"]>>}

SegmentCell(col, r, present) ==
    CASE col.name = "c" -> StrCell("X")
      [] col.name = "x" -> IF present THEN NumCell(1) ELSE NaN
      [] col.name = "y" -> NumCell(r)

InitSegment ==
    /\ pc = "segment_input"
    /\ \E columns \in SegmentSchemas, k \in 0..MaxSegmentRows :
          \E present \in [1..k -> BOOLEAN] :
              df = [columns |-> columns,
                    rows |-> [r \in 1..k |->
                                [c \in 1..Len(columns) |->
                                    SegmentCell(columns[c], r, present[r])]]]
    /\ cleaner = Idle /\ cleaned = Idle /\ recleaned = Idle
    /\ filters = Idle /\ payload = Idle /\ filtered = Idle /\ route_filtered = Idle
    /\ kpi_out = Idle
    /\ insights = Idle
    /\ charts = Idle /\ kpis = Idle /\ recommendations = Idle /\ layout = Idle
    /\ passed = Idle /\ optimized = Idle /\ custom = Idle /\ custom_again = Idle

\* The number of rows that hold a value in each of the first two numeric
\* columns (0 when there are not two).
CompleteRows(frame) ==
    LET numeric_cols == select_dtypes(frame, "number")
    IN  IF Len(numeric_cols) < 2 THEN 0
        ELSE Cardinality({r \in 1..Len(frame.rows) :
                            /\ Column(frame, numeric_cols[1])[r] # NaN
                            /\ Column(frame, numeric_cols[2])[r] # NaN})

\* kmeans.fit_predict, called when there are more than 10 complete rows:
\* every row gets one of the labels 0, 1, 2; which, is KMeans's choice.  The
\* sizes the three clusters can have over n rows.
Clusterings(n) ==
    IF n > 10 THEN {sizes \in [1..3 -> 0..n] : sizes[1] + sizes[2] + sizes[3] = n}
    ELSE {<<0, 0, 0>>}

\* cluster_analysis: one entry per label, with the number of rows of the
\* cluster.
cluster_analysis(sizes) == [i \in 1..3 |-> [cluster_id |-> i - 1, size |-> sizes[i]]]

\* The insights with the segments of the segmentation insight filled in.
with_segments(found, sizes) ==
    [k \in 1..Len(found) |->
        IF found[k].type = "segmentation"
        THEN [found[k] EXCEPT !.data = [segments |-> cluster_analysis(sizes),
                                        features_used |-> @.features_used]]
        ELSE found[k]]

\* recommendations = Recommender().generate_recommendations(df)
GenerateSegmentRecommendations ==
    /\ pc = "segment_input"
    /\ \E sizes \in Clusterings(CompleteRows(df)) :
          insights' = with_segments(generate_recommendations(df), sizes)
    /\ pc' = "segmented"
    /\ UNCHANGED <<df, layoutVars, kpiVars, filterVars, cleanVars>>

NextSegment == GenerateSegmentRecommendations

SpecSegment == InitSegment /\ [][NextSegment]_vars

\* The segmentation insights among the insights.
SegmentationInsights == SelectSeq(insights, LAMBDA x : x.type = "segmentation")

\* Whether the insights hold one segmentation insight of 3 clusters whose
\* sizes sum to the number of complete rows.
OneSegmentationOfThree ==
    /\ Len(SegmentationInsights) = 1
    /\ LET segments == SegmentationInsights[1].data.segments
       IN  /\ Len(segments) = 3
           /\ segments[1].size + segments[2].size + segments[3].size = CompleteRows(df)

\* The segmentation runs exactly when the dataset has a column of labels,
\* two numeric columns and more than 10 complete rows.
SegmentationAboveTenRows ==
    pc = "segmented" =>
        IF /\ select_dtypes(df, "object") # <<>>
           /\ Len(select_dtypes(df, "number")) >= 2
           /\ CompleteRows(df) > 10
        THEN OneSegmentationOfThree
        ELSE SegmentationInsights = <<>>

\* C24: the segmentation runs whenever the dataset has at least 1
\* categorical column, at least 2 numeric columns and at least 10 complete
\* rows: a dataset of exactly 10 complete rows yields one segmentation
\* insight of 3 clusters whose sizes sum to the number of complete rows.
C24_SegmentationAtTenRows ==
    (/\ pc = "segmented"
     /\ select_dtypes(df, "object") # <<>>
     /\ Len(select_dtypes(df, "number")) >= 2
     /\ CompleteRows(df) >= 10)
    => OneSegmentationOfThree

(***************************************************************************)
(* The grid of a section.  The cells depend on the number of the           *)
(* components of a section and on the kinds of the charts, so the insights  *)
(* are none or one.                                                         *)
(***************************************************************************)
InitGrid ==
    /\ pc = "layout_input"
    /\ charts \in ChartInputs
    /\ kpis \in KpiInputs
    /\ recommendations \in {rs \in RecInputs : Len(rs) <= 1}
    /\ layout = Idle
    /\ passed = Idle /\ optimized = Idle /\ custom = Idle /\ custom_again = Idle
    /\ df = Idle
    /\ kpi_out = Idle
    /\ insights = Idle
    /\ filters = Idle /\ payload = Idle /\ filtered = Idle /\ route_filtered = Idle
    /\ cleaner = Idle /\ cleaned = Idle /\ recleaned = Idle

NextGrid == OrganizeLayout

SpecGrid == InitGrid /\ [][NextGrid]_vars

\* The kinds of the charts, each once, in the order they are first seen.
FirstSeenKinds(cs) ==
    LET first == SelectSeq([i \in 1..Len(cs) |-> i],
                           LAMBDA i : \A j \in 1..(i - 1) : ChartType(cs[j]) # ChartType(cs[i]))
    IN  [k \in 1..Len(first) |-> ChartType(cs[first[k]])]

\* The charts of a kind, in the order of the input.
ChartsOfKind(cs, kind) == SelectSeq(cs, LAMBDA c : ChartType(c) = kind)

\* Whether the components of a section lie in distinct cells of its grid.
DistinctCellsInGrid(section) ==
    /\ \A j \in 1..Len(section.components) :
          LET position == section.components[j].position
          IN  /\ 0 <= position.col /\ position.col < section.layout.columns
              /\ 0 <= position.row /\ position.row < section.layout.rows
    /\ \A j, k \in 1..Len(section.components) :
          j # k => <<section.components[j].position.row, section.components[j].position.col>>
                   # <<section.components[k].position.row, section.components[k].position.col>>

\* Whether the i-th component of a section sits at row i div per, col
\* i mod per of a grid of per columns and ceil(n / per) rows.
FilledRowByRow(section, per) ==
    /\ section.layout.columns = per
    /\ section.layout.rows = (Len(section.components) + per - 1) \div per
    /\ \A j \in 1..Len(section.components) :
          /\ section.components[j].position.row = (j - 1) \div per
          /\ section.components[j].position.col = (j - 1) % per

\* C25: in every section organize_layout emits the components occupy
\* pairwise distinct cells inside the section's grid; KPI i sits at row
\* i div 4, col i mod 4 of a 4-column grid of ceil(n/4) rows, the i-th chart
\* of a kind at row i div 2, col i mod 2 of a 2-column grid, and there is one
\* chart section per distinct chart kind, in first-seen kind order.
C25_DistinctCellsInsideGrid ==
    pc = "organized" =>
        LET kinds == FirstSeenKinds(charts)
            before == IF kpis # <<>> THEN 1 ELSE 0
        IN  /\ \A s \in 1..Len(layout.sections) : DistinctCellsInGrid(layout.sections[s])
            /\ \A s \in 1..Len(layout.sections) :
                  layout.sections[s].type = "kpi_grid" =>
                      /\ FilledRowByRow(layout.sections[s], 4)
                      /\ [j \in 1..Len(layout.sections[s].components) |->
                             layout.sections[s].components[j].data] = kpis
            /\ {s \in 1..Len(layout.sections) : layout.sections[s].type = "chart_grid"}
                  = (before + 1)..(before + Len(kinds))
            /\ \A g \in 1..Len(kinds) :
                  LET section == layout.sections[before + g]
                  IN  /\ section.id = "chart_section_" \o kinds[g]
                      /\ FilledRowByRow(section, 2)
                      /\ [j \in 1..Len(section.components) |-> section.components[j].data]
                         = ChartsOfKind(charts, kinds[g])

\* C25 witness: KPIs that fill more than one row of the grid, and charts of
\* two kinds, the second chart of the first kind coming after a chart of the
\* other and into a second row.
C25_Witness ==
    /\ pc = "organized"
    /\ Len(kpis) = 5
    /\ Len(charts) = 3
    /\ ChartType(charts[1]) # ChartType(charts[2])
    /\ ChartType(charts[1]) = ChartType(charts[3])
    /\ \E s \in 1..Len(layout.sections) :
          /\ layout.sections[s].type = "kpi_grid"
          /\ layout.sections[s].components[5].position.row = 1
    /\ \E s \in 1..Len(layout.sections) :
          /\ layout.sections[s].type = "chart_grid"
          /\ Len(layout.sections[s].components) = 2

(***************************************************************************)
(* The fence of the numeric columns (SpecClean).                           *)
(***************************************************************************)

\* Whether the numeric columns of a cleaned dataset hold, row by row, the
\* coerced value of the input where it lies inside the fence of the coerced
\* input column, and elsewhere the median of the values inside the fence;
\* and every value of theirs lies inside that fence.
FencedAndFilled(self, input, output) ==
    \A name \in RangeOf(self.numeric_columns) \cap RangeOf(Names(input)) :
        LET coerced == [i \in 1..Len(input.rows) |-> to_numeric(Column(input, name)[i])]
            sorted == SortInts(Values(dropna(coerced)))
            Q1 == Quantile4(sorted, 1)
            Q3 == Quantile4(sorted, 3)
            inside(cell) == cell # NaN /\ ~IsOutlier(cell.n, Q1, Q3)
            remained == SelectSeq(coerced, inside)
        IN  \A k \in 1..Len(output.rows) :
                LET cell == Column(output, name)[k]
                    was == coerced[CHOOSE r \in 1..Len(input.rows) :
                                      copy(input).index[r] = output.index[k]]
                IN  /\ inside(cell)
                    /\ cell = IF inside(was) THEN was ELSE median(remained)

\* C26: after clean_data every value of a numeric column lies within
\* [Q1 - 1.5*IQR, Q3 + 1.5*IQR] of the coerced input column: a value outside
\* the fence is replaced by the median of the values that remained, a value
\* inside it is left unchanged.
C26_NumericWithinFence ==
    /\ pc = "cleaned" => FencedAndFilled(cleaner, df, cleaned)
    /\ pc = "recleaned" => FencedAndFilled(cleaner, cleaned, recleaned)

\* C26 witness: a numeric column held a value outside the fence, which the
\* cleaned column holds the median in the place of, beside a value it kept.
C26_Witness ==
    /\ pc = "cleaned"
    /\ Names(df) = <<"x">>
    /\ "x" \in RangeOf(cleaner.numeric_columns)
    /\ Len(cleaned.rows) >= 3
    /\ \E k \in 1..Len(cleaned.rows) :
          /\ Column(df, "x")[cleaned.index[k]] = NumCell(400)
          /\ Column(cleaned, "x")[k] # NumCell(400)
          /\ Column(cleaned, "x")[k] = median(SelectSeq(Column(df, "x"),
                                                        LAMBDA cell : cell # NumCell(400)))
    /\ \E k \in 1..Len(cleaned.rows) :
          /\ Column(df, "x")[cleaned.index[k]] = NumCell(32)
          /\ Column(cleaned, "x")[k] = NumCell(32)

(***************************************************************************)
(* The time-based outputs on a date and a value column of up to a week of  *)
(* dates and more (kpi_builder.py, recommender.py).                        *)
(***************************************************************************)
MaxTimeRows == 7

TimeSchema == <<[name |-> "d", dtype |-> "datetime64"], [name |-> "a", dtype |-> "number"]>>

\* The timestamps of the rows ascend from the first day on: a row is at the
\* instant of the row before it, half a day or a day later.  The value of
\* the first row is 0 or 1, that of row r is r.
InitTime ==
    /\ pc = "time_input"
    /\ \E k \in 0..MaxTimeRows :
          \E gaps \in [1..k -> 0..2], first \in {0, 1} :
              /\ k > 0 => gaps[1] = 0
              /\ df = [columns |-> TimeSchema,
                       rows |-> [r \in 1..k |->
                                   <<TimeCell(2 + SumSeq(SubSeq(gaps, 1, r))),
                                     NumCell(IF r = 1 THEN first ELSE r)>>]]
    /\ kpi_out = Idle
    /\ insights = Idle
    /\ filters = Idle /\ payload = Idle /\ filtered = Idle /\ route_filtered = Idle
    /\ cleaner = Idle /\ cleaned = Idle /\ recleaned = Idle
    /\ charts = Idle /\ kpis = Idle /\ recommendations = Idle /\ layout = Idle
    /\ passed = Idle /\ optimized = Idle /\ custom = Idle /\ custom_again = Idle

\* kpis = KPIBuilder().build_kpis(df)
TimeBuildKpis ==
    /\ pc = "time_input"
    /\ kpi_out' = build_kpis(df)
    /\ pc' = "time_kpis"
    /\ UNCHANGED <<df, layoutVars, trendVars, filterVars, cleanVars>>

\* recommendations = Recommender().generate_recommendations(df)
TimeGenerateRecommendations ==
    /\ pc = "time_kpis"
    /\ insights' = generate_recommendations(df)
    /\ pc' = "time_insights"
    /\ UNCHANGED <<df, layoutVars, kpiVars, filterVars, cleanVars>>

NextTime == TimeBuildKpis \/ TimeGenerateRecommendations

SpecTime == InitTime /\ [][NextTime]_vars

\* The calendar dates and the timestamps a date column holds.
DistinctDates(frame, date_column) ==
    {DateOf(cell.n) : cell \in RangeOf(dropna(Column(frame, date_column)))}

DistinctStamps(frame, date_column) ==
    {cell.n : cell \in RangeOf(dropna(Column(frame, date_column)))}

\* The KPIs of a kind and the insights of a type made for a pair of columns.
KpisFor(kind, of) == SelectSeq(kpi_out, LAMBDA kpi : kpi.kind = kind /\ kpi.of = of)

InsightsFor(type, of) == SelectSeq(insights, LAMBDA x : x.type = type /\ x.of = of)

\* The growth KPI, the trend insight and the forecast insight are gated on
\* the number of calendar dates, the period-change KPI on the number of
\* timestamps; each is made at most once for a pair.
TimeOutputsGated ==
    pc = "time_insights" =>
        LET dates == Cardinality(DistinctDates(df, "d"))
            stamps == Cardinality(DistinctStamps(df, "d"))
            of == <<"d", "a">>
        IN  /\ dates < 2 => KpisFor("growth", of) = <<>>
            /\ stamps < 2 => KpisFor("period_comparison", of) = <<>>
            /\ dates < 3 => InsightsFor("trend", of) = <<>>
            /\ dates < 7 => InsightsFor("forecast", of) = <<>>
            /\ dates >= 3 => Len(InsightsFor("trend", of)) = 1
            /\ dates >= 7 => Len(InsightsFor("forecast", of)) = 1
            /\ Len(KpisFor("growth", of)) <= 1
            /\ Len(KpisFor("period_comparison", of)) <= 1

\* C27: the time-based outputs are gated on the number of distinct dates of
\* the date column: for a date and numeric pair there is no growth KPI and
\* no period-change KPI with fewer than 2 distinct dates, no trend insight
\* with fewer than 3 and no forecast insight with fewer than 7; each
\* analysis makes at most one item for the pair.
C27_GatedOnDistinctDates ==
    pc = "time_insights" =>
        LET dates == Cardinality(DistinctDates(df, "d"))
            of == <<"d", "a">>
        IN  /\ dates < 2 => KpisFor("growth", of) = <<>>
            /\ dates < 2 => KpisFor("period_comparison", of) = <<>>
            /\ dates < 3 => InsightsFor("trend", of) = <<>>
            /\ dates < 7 => InsightsFor("forecast", of) = <<>>
            /\ Len(KpisFor("growth", of)) <= 1
            /\ Len(KpisFor("period_comparison", of)) <= 1
            /\ Len(InsightsFor("trend", of)) <= 1
            /\ Len(InsightsFor("forecast", of)) <= 1

(***************************************************************************)
(* The two apply_filters (SpecFilter).                                     *)
(***************************************************************************)

\* Whether a filter state holds what both apply_filters read alike: no text
\* search, and no key that only the request layer falls back on.
ReadAlike(config) ==
    /\ Get(config, "type", NoKey) = "text" => ~Truthy(Get(config, "current_value", ""))
    /\ Get(config, "type", NoKey) = "range" =>
          /\ "current_min" \in DOMAIN config \/ "min" \notin DOMAIN config
          /\ "current_max" \in DOMAIN config \/ "max" \notin DOMAIN config
    /\ DOMAIN config \cap {"values", "start_date", "end_date"} = {}

\* The two apply_filters return the same dataset for a payload of filter
\* states both read alike.
SameRowsWhenReadAlike ==
    (pc = "applied_both" /\ \A k \in 1..Len(payload) : ReadAlike(payload[k].config))
        => route_filtered = filtered

\* C28: the request layer's apply_filters and FilterBuilder.apply_filters
\* select the same rows for every dataset and every payload of range, date,
\* categorical and text filter states, a range whose current_min and
\* current_max are absent while min and max are present among them.
C28_SameRowsSelected ==
    pc = "applied_both" => route_filtered = filtered

(***************************************************************************)
(* The round trip of the date filter (SpecFilter).                         *)
(***************************************************************************)

\* The date filter build_filters made returns every row of a dataset whose
\* timestamps on the last date are at midnight.
DateRoundTripAtMidnight ==
    (/\ pc = "round_trip"
     /\ payload[1].config.type = "date"
     /\ \A cell \in RangeOf(Column(df, payload[1].column)) :
           DateOf(cell.n) = DateOf(series_max(Column(df, payload[1].column)).n)
               => cell.n % 2 = 0)
    => /\ filtered.rows = df.rows
       /\ filtered.index = [i \in 1..Len(df.rows) |-> i]

\* C29: for any dataset with a datetime column, whose values may carry a
\* time of day, applying the date filter build_filters synthesized for it
\* (current_start = min_date, current_end = max_date) returns every row of
\* the dataset.
C29_DateRoundTrip ==
    pc = "round_trip" /\ payload[1].config.type = "date" =>
        /\ filtered.rows = df.rows
        /\ filtered.index = [i \in 1..Len(df.rows) |-> i]

(***************************************************************************)
(* The direction of a trend (SpecTrend).                                   *)
(***************************************************************************)

\* The sign of a fraction.
Positive(x) == x.n * x.d > 0
Negative(x) == x.n * x.d < 0

\* The sum of the daily totals of the first half of the dates of an
\* insight's column pair.
FirstHalfSum(x) ==
    LET totals == trend_daily_totals(df, x.of[1], x.of[2])
    IN  SumSeq(SubSeq(totals, 1, Len(totals) \div 2))

\* Whether the direction of a trend insight agrees with the sign of its
\* change.
DirectionAgrees(x) ==
    /\ x.data.trend_direction = "increasing" <=> Positive(x.data.change_percentage)
    /\ x.data.trend_direction = "decreasing" <=> Negative(x.data.change_percentage)

\* With a positive first-half mean and a change other than 0 the direction
\* agrees with the sign of the change.
DirectionAgreesOnPositiveBase ==
    pc = "trend_done" =>
        \A i \in 1..Len(insights) :
            (FirstHalfSum(insights[i]) > 0 /\ insights[i].data.change_percentage.n # 0)
                => DirectionAgrees(insights[i])

\* C30: in every trend insight trend_direction is "increasing" exactly when
\* change_percentage > 0 and "decreasing" exactly when change_percentage < 0,
\* for any daily totals, zero or negative first-half means among them.
C30_DirectionMatchesChange ==
    pc = "trend_done" => \A i \in 1..Len(insights) : DirectionAgrees(insights[i])

====
